---- MODULE Spec2Model ----
(***************************************************************************)
(* A model of the Asana task exporter: the encrypted configuration store   *)
(* (business/config_manager.py), the configuration initializer             *)
(* (business/config_initializer.py), the field catalog                     *)
(* (business/config_schema.py, data/models.py) and the task manager        *)
(* (business/task_manager.py).                                             *)
(*                                                                         *)
(* The file system is modelled with POSIX semantics: a path names an       *)
(* inode, an open file descriptor keeps its inode across a rename, and     *)
(* open(..., 'w') truncates the inode the path names.  The text of a JSON  *)
(* document is a sequence of blocks; a file holds a parseable document     *)
(* exactly when it holds all the blocks of one document and nothing else.  *)
(***************************************************************************)
EXTENDS Integers, Sequences, FiniteSets, TLC

VARIABLES
    dir,         \* config directory: path -> inode (0: no such file)
    data,        \* inode -> text of the file (sequence of blocks)
    keyFile,     \* content of key.key (0: no such file)
    nextKey,     \* the next key Fernet.generate_key() will return
    pc,          \* per store instance: position in the running operation
    encKey,      \* per store instance: self._encryption_key
    arg,         \* per store instance: the mapping passed to save_config
    fd,          \* per store instance: inode of the open temporary file
    caller,      \* per store instance: the initializer frame that called save_config
    preCall,     \* per store instance: the config file when save_config was entered
    result,      \* the outcome of the operation that completed last
    diskFaults,  \* whether writes, renames and unlinks in the directory can fail
    vIn,         \* argument of validate_selected_fields
    vOut,        \* its return value
    fTasks,      \* filter_tasks_by_fields: tasks
    fSelected,   \* filter_tasks_by_fields: the caller's selected_fields list
    fAvail,      \* filter_tasks_by_fields: available_field_definitions
    fOut,        \* filter_tasks_by_fields: outcome
    dStart,      \* validate_date_range: start_date
    dEnd,        \* validate_date_range: end_date
    dOut,        \* validate_date_range: outcome
    decorated,   \* retry_on_error: the decorated function, its policy and arguments
    rPc,         \* retry_on_error: position of the wrapper
    attempt,     \* retry_on_error: loop index
    current_delay, \* retry_on_error: the next sleep, in seconds
    last_error,  \* retry_on_error: the exception caught last
    listed,      \* invocations of the decorated body's call in this wrapper call
    slept,       \* the sleeps of this wrapper call, in seconds
    rOut,        \* outcome of the wrapper call
    error_stats, \* ErrorHandler.error_stats of the process
    runs,        \* wrapper calls made so far
    tried,       \* what each invocation of func did in this wrapper call
    stats_before, \* error_stats when this wrapper call began
    xTasks,      \* export: the Task objects
    xSelected,   \* export: the selected_fields list of the caller
    xFields,     \* export: the field catalog get_task_fields returned
    xFilename,   \* export: the file name
    xDisk,       \* export: what the output directory and workbook.save do
    xOut,        \* export: outcome and sheet
    window,      \* main window: "none" until it is constructed
    stored,      \* main window: what load_config did at construction
    project_var, \* main window: the project name shown
    status_var,  \* main window: the status message shown
    progress_var, \* main window: the progress shown
    export_btn,  \* main window: state of the export control
    completion_filter_var, \* main window: both, completed or incomplete
    start_date_var, \* main window: the start date field
    end_date_var, \* main window: the end date field
    wPc,         \* export worker thread: position ("none": no thread)
    wLocals,     \* export worker thread: its local variables
    afterQueue,  \* callbacks posted with root.after(0, ...) and not yet run
    posted,      \* percentages the worker posted in this run
    outcome,     \* completion and failure callbacks run for this run
    exported,    \* this run: where its task list became empty, and the file
    toplevel,    \* settings window: "none", "open" or "destroyed"
    current_config, \* settings window: the configuration loaded at construction
    api_token_var, \* settings window: the token entry
    selected_project_var, \* settings window: the text of the project combobox
    projects,    \* settings window: the project list fetched last
    availableFields, \* settings window: the field catalog shown
    field_vars,  \* settings window: the check boxes, in insertion order
    current_api_client, \* settings window: index in clients (0: None)
    clients,     \* the clients _connection_test_success created
    test_button, \* settings window: state of the connection test button
    project_combobox, \* settings window: state of the project combobox
    threads,     \* settings window: worker threads that are running
    settingsQueue, \* callbacks posted with window.after(0, ...) and not yet run
    saved,       \* the configurations save_settings persisted
    qPc,         \* _make_request: position of the call
    qAttempt,    \* _make_request: loop index
    retry_count, \* _make_request: the retry count it reports
    received,    \* what session.request did in each attempt of this call
    waits,       \* the sleeps of this call, in seconds
    metrics,     \* the status codes passed to log_api_metrics in this call
    qOut,        \* outcome of the call
    calls,       \* _make_request calls made so far
    gData,       \* get_project_tasks: the records of the response
    gStart,      \* get_project_tasks: start_date
    gEnd,        \* get_project_tasks: end_date
    gOut         \* get_project_tasks: outcome

storeVars == <<dir, data, keyFile, nextKey, pc, encKey, arg, fd, caller,
               preCall, result, diskFaults>>
fieldVars == <<vIn, vOut, fTasks, fSelected, fAvail, fOut>>
dateVars == <<dStart, dEnd, dOut>>
retryVars == <<decorated, rPc, attempt, current_delay, last_error, listed,
               slept, rOut, error_stats, runs, tried, stats_before>>
sheetVars == <<xTasks, xSelected, xFields, xFilename, xDisk, xOut>>
windowVars == <<window, stored, project_var, status_var, progress_var,
                export_btn, completion_filter_var, start_date_var, end_date_var,
                wPc, wLocals, afterQueue, posted, outcome, exported>>
settingsVars == <<toplevel, current_config, api_token_var, selected_project_var,
                  projects, availableFields, field_vars, current_api_client,
                  clients, test_button, project_combobox, threads,
                  settingsQueue, saved>>
requestVars == <<qPc, qAttempt, retry_count, received, waits, metrics, qOut,
                 calls>>
listingVars == <<gData, gStart, gEnd, gOut>>
clientVars == <<requestVars, listingVars>>
appVars == <<retryVars, sheetVars, windowVars, settingsVars, clientVars>>
vars == <<storeVars, fieldVars, dateVars, appVars>>

\* what the operations of the configuration store leave alone
otherVars == <<diskFaults, fieldVars, dateVars, appVars>>

\* what the retry wrapper and the export leave alone
notRetry == <<storeVars, fieldVars, dateVars, sheetVars, windowVars,
              settingsVars, clientVars>>
notSheet == <<storeVars, fieldVars, dateVars, retryVars, windowVars,
              settingsVars, clientVars>>
notWindow == <<storeVars, fieldVars, dateVars, retryVars, sheetVars,
               settingsVars, clientVars>>
notSettings == <<storeVars, fieldVars, dateVars, retryVars, sheetVars,
                 windowVars, clientVars>>
\* what _make_request leaves alone: all but its own state and error_stats
notRequest == <<storeVars, fieldVars, dateVars, sheetVars, windowVars,
                settingsVars, listingVars, decorated, rPc, attempt,
                current_delay, last_error, listed, slept, rOut, runs, tried,
                stats_before>>
notListing == <<storeVars, fieldVars, dateVars, retryVars, sheetVars,
                windowVars, settingsVars, requestVars>>

(***************************************************************************)
(* Bounds                                                                  *)
(***************************************************************************)
MaxKeys == 2
MaxSel == 3
MaxTasks == 1
PastDays == 401
FutureDays == 2

Instances == {1, 2}

(***************************************************************************)
(* Python values.  A field of the wrong type is one of these stand-ins.    *)
(***************************************************************************)
NonStr == "<not-a-str>"
NonInt == -999
NonList == <<"<not-a-list>">>

IsStr(v) == v # NonStr
IsInt(v) == v # NonInt
IsList(v) == v # NonList

Get(m, k, d) == IF k \in DOMAIN m THEN m[k] ELSE d

NoValue == <<>>

(***************************************************************************)
(* config_schema.py: the static field catalog                              *)
(***************************************************************************)
AVAILABLE_TASK_FIELDS ==
    {"name", "created_at", "modified_at", "completed", "assignee", "due_date",
     "notes", "tags", "projects", "parent", "subtasks", "dependencies",
     "custom_fields"}

REQUIRED_FIELDS == <<"name", "created_at">>

DEFAULT_SELECTED_FIELDS == <<"name", "created_at", "assignee", "completed", "due_date">>

Contains(list, x) == \E n \in DOMAIN list : list[n] = x

RECURSIVE FilterSeq(_, _)
FilterSeq(list, keep) ==
    IF list = <<>> THEN <<>>
    ELSE IF Head(list) \in keep
         THEN <<Head(list)>> \o FilterSeq(Tail(list), keep)
         ELSE FilterSeq(Tail(list), keep)

RECURSIVE InsertRequired(_, _)
InsertRequired(fields, required) ==
    IF required = <<>> THEN fields
    ELSE InsertRequired(IF Contains(fields, Head(required))
                        THEN fields
                        ELSE <<Head(required)>> \o fields,
                        Tail(required))

\* the same without the final filter on the catalog
validate_selected_fields_unfiltered(selected_fields) ==
    IF selected_fields = <<>> THEN DEFAULT_SELECTED_FIELDS
    ELSE InsertRequired(selected_fields, REQUIRED_FIELDS)

validate_selected_fields(selected_fields) ==
    IF selected_fields = <<>> THEN DEFAULT_SELECTED_FIELDS
    ELSE FilterSeq(InsertRequired(selected_fields, REQUIRED_FIELDS),
                   AVAILABLE_TASK_FIELDS)

(***************************************************************************)
(* config_schema.py / config_manager.py: configuration mappings            *)
(***************************************************************************)
Documents == "~/Documents"
Home == "~"

MkConfig(tok, pid, pname, rng, fields, outdir, wsize) ==
    [asana |-> [access_token |-> tok, selected_project_id |-> pid,
                selected_project_name |-> pname],
     export |-> [default_date_range |-> rng, selected_fields |-> fields,
                 output_directory |-> outdir],
     ui |-> [window_size |-> wsize, last_export_path |-> ""]]

get_default_config ==
    MkConfig("", "", "", 30, DEFAULT_SELECTED_FIELDS, Documents, "800x600")

\* AppConfig(): AsanaConfig(), ExportConfig() and UIConfig() with their defaults
AppConfig ==
    MkConfig("", "", "", 30, DEFAULT_SELECTED_FIELDS, Documents, "800x600")

from_dict(d) ==
    LET a == Get(d, "asana", <<>>)
        e == Get(d, "export", <<>>)
        u == Get(d, "ui", <<>>)
        out == Get(e, "output_directory", "")
    IN  [asana |-> [access_token |-> Get(a, "access_token", ""),
                    selected_project_id |-> Get(a, "selected_project_id", ""),
                    selected_project_name |-> Get(a, "selected_project_name", "")],
         export |-> [default_date_range |-> Get(e, "default_date_range", 30),
                     selected_fields |-> Get(e, "selected_fields", DEFAULT_SELECTED_FIELDS),
                     output_directory |-> IF out = "" THEN Documents ELSE out],
         ui |-> [window_size |-> Get(u, "window_size", "800x600"),
                 last_export_path |-> Get(u, "last_export_path", "")]]

\* str.split('x') and int() on the window sizes of the model
SplitX(s) ==
    CASE s = "800x600" -> <<"800", "600">>
      [] s = "1024x768" -> <<"1024", "768">>
      [] s = "axb" -> <<"a", "b">>
      [] s = "1x2x3" -> <<"1", "2", "3">>
      [] OTHER -> <<s>>

IsIntLiteral(s) == s \in {"800", "600", "1024", "768", "1", "2", "3"}

validate_config(config) ==
    /\ \A section \in {"asana", "export", "ui"} : section \in DOMAIN config
    /\ LET asana_config == config["asana"]
       IN  /\ IsStr(Get(asana_config, "access_token", ""))
           /\ IsStr(Get(asana_config, "selected_project_id", ""))
           /\ IsStr(Get(asana_config, "selected_project_name", ""))
    /\ LET export_config == config["export"]
       IN  /\ IsInt(Get(export_config, "default_date_range", 0))
           /\ Get(export_config, "default_date_range", 0) > 0
           /\ IsList(Get(export_config, "selected_fields", <<>>))
           /\ IsStr(Get(export_config, "output_directory", ""))
    /\ LET window_size == Get(config["ui"], "window_size", "")
       IN  /\ IsStr(window_size)
           /\ (window_size # "" /\ Len(SplitX(window_size)) > 1)
                 => /\ Len(SplitX(window_size)) = 2
                    /\ \A n \in 1..2 : IsIntLiteral(SplitX(window_size)[n])

(***************************************************************************)
(* config_manager.py: encryption of the access token                       *)
(***************************************************************************)
Plaintexts == {"tokA", "tokB"}

\* base64(Fernet(key).encrypt(text)): readable only with the same key
Fernet(key, text) == "enc:" \o ToString(key) \o ":" \o text

\* the token is stored as it is
encrypt_sensitive_data_plain(key, text) == text

encrypt_sensitive_data(key, text) ==
    IF text = "" THEN "" ELSE Fernet(key, text)

CanDecrypt(key, encrypted) ==
    encrypted = "" \/ \E pt \in Plaintexts : encrypted = Fernet(key, pt)

decrypt_sensitive_data(key, encrypted) ==
    IF encrypted = "" THEN ""
    ELSE CHOOSE pt \in Plaintexts : encrypted = Fernet(key, pt)

TokenOf(config) == Get(Get(config, "asana", <<>>), "access_token", "")

\* config_to_save in save_config: a deep copy with the token encrypted
ConfigToSave(key, config) ==
    IF TokenOf(config) # ""
    THEN [config EXCEPT !.asana.access_token = encrypt_sensitive_data(key, @)]
    ELSE config

(***************************************************************************)
(* JSON text: json.dump writes SerLen blocks, json.load accepts exactly    *)
(* the complete text of one document                                       *)
(***************************************************************************)
SerLen(doc) == IF TokenOf(doc) = "" THEN 2 ELSE 3

json_dump(doc) == [n \in 1..SerLen(doc) |-> doc]

IsJson(text) ==
    /\ Len(text) > 0
    /\ Len(text) = SerLen(text[1])
    /\ \A n \in DOMAIN text : text[n] = text[1]

json_load(text) == text[1]

(***************************************************************************)
(* The config directory                                                    *)
(***************************************************************************)
CONFIG == "config.json"
TEMP == "config.tmp"
Paths == {CONFIG, TEMP}

Inodes == 1..(Cardinality(Instances) + 2)

Live(n, d, f) == (\E p \in Paths : d[p] = n) \/ (\E i \in Instances : f[i] = n)

FreeInode(d, f) ==
    CHOOSE n \in Inodes : ~Live(n, d, f) /\ \A m \in 1..(n - 1) : Live(m, d, f)

\* the text of an inode that no path and no descriptor refers to is gone
Gc(d, f, dt) == [n \in Inodes |-> IF Live(n, d, f) THEN dt[n] ELSE <<>>]

\* the temporary file is left where it is
unlink_temp_skipped(d) == d

\* temp_file.unlink()
unlink_temp(d) == [d EXCEPT ![TEMP] = 0]

\* the temporary file is removed and the config file is not touched
replace_temp_dropped(d) == [d EXCEPT ![TEMP] = 0]

\* temp_file.replace(self.config_file): rename(2) over the config file
replace_temp(d) == [d EXCEPT ![CONFIG] = d[TEMP], ![TEMP] = 0]

\* write(2) at offset 0 of a file that was opened with 'w'
WriteAt0(old, new) == new \o SubSeq(old, Len(new) + 1, Len(old))

config_exists == dir[CONFIG] # 0

ConfigText == IF config_exists THEN data[dir[CONFIG]] ELSE <<>>

ConfigSnapshot == [exists |-> config_exists, text |-> ConfigText]

Idle == "idle"

\* the outcomes of a system call: FALSE it succeeds, TRUE it raises OSError
Faults == IF diskFaults THEN BOOLEAN ELSE {FALSE}

AllIdle == \A i \in Instances : pc[i] \in {"none", Idle}

(***************************************************************************)
(* Outcomes of completed operations                                        *)
(***************************************************************************)
\* after names the operation that completed before this one
NoResult ==
    [op |-> "none", status |-> "ok", err |-> "", value |-> NoValue, by |-> 0,
     info |-> 0, after |-> "none"]

Tag(r) == r.op \o ":" \o r.status

Done(i, op, status, err, value, info) ==
    [op |-> op, status |-> status, err |-> err, value |-> value, by |-> i,
     info |-> info, after |-> Tag(result)]

Complete(rec) == result' = rec

NoSnapshot == [exists |-> FALSE, text |-> <<>>]

(***************************************************************************)
(* ConfigManager.__init__ and _get_or_create_key                           *)
(***************************************************************************)
\* generate_key() returns a key that was never returned before
GenerateKey == nextKey

KeyAvailable == keyFile # 0 \/ nextKey <= MaxKeys

\* the new key is returned and never written to the key file
get_or_create_key_unwritten ==
    IF keyFile # 0
    THEN [key |-> keyFile, file |-> keyFile, next |-> nextKey]
    ELSE [key |-> GenerateKey, file |-> 0, next |-> nextKey + 1]

get_or_create_key ==
    IF keyFile # 0
    THEN [key |-> keyFile, file |-> keyFile, next |-> nextKey]
    ELSE [key |-> GenerateKey, file |-> GenerateKey, next |-> nextKey + 1]

Construct(i) ==
    /\ pc[i] = "none"
    /\ KeyAvailable
    /\ LET k == get_or_create_key
       IN  /\ encKey' = [encKey EXCEPT ![i] = k.key]
           /\ keyFile' = k.file
           /\ nextKey' = k.next
    /\ pc' = [pc EXCEPT ![i] = Idle]
    /\ Complete(Done(i, "construct", "ok", "", NoValue, 0))
    /\ UNCHANGED <<dir, data, arg, fd, caller, preCall>>
    /\ UNCHANGED otherVars

\* the application exits: the instance is gone, the files stay
Dispose(i) ==
    /\ pc[i] = Idle
    /\ pc' = [pc EXCEPT ![i] = "none"]
    /\ encKey' = [encKey EXCEPT ![i] = 0]
    /\ UNCHANGED <<dir, data, keyFile, nextKey, arg, fd, caller, preCall,
                   result>>
    /\ UNCHANGED otherVars

(***************************************************************************)
(* ConfigManager.load_config                                               *)
(***************************************************************************)
Returned(value) == [status |-> "ok", err |-> "", value |-> value]

Raised(err) == [status |-> "raise", err |-> err, value |-> NoValue]

\* a token that cannot be decrypted is reported like unparseable JSON
load_config_strict(key) ==
    IF ~config_exists THEN Returned(get_default_config)
    ELSE IF ~IsJson(ConfigText) THEN Raised("ValueError")
    ELSE LET config == json_load(ConfigText)
         IN  IF TokenOf(config) # "" /\ ~CanDecrypt(key, TokenOf(config))
             THEN Raised("ValueError")
             ELSE LET decrypted ==
                          IF TokenOf(config) # ""
                          THEN [config EXCEPT !.asana.access_token =
                                    decrypt_sensitive_data(key, @)]
                          ELSE config
                  IN  IF validate_config(decrypted)
                      THEN Returned(decrypted)
                      ELSE Returned(get_default_config)

load_config(key) ==
    IF ~config_exists THEN Returned(get_default_config)
    ELSE IF ~IsJson(ConfigText) THEN Raised("ValueError")
    ELSE LET config == json_load(ConfigText)
         IN  IF TokenOf(config) # "" /\ ~CanDecrypt(key, TokenOf(config))
             THEN Returned(get_default_config)
             ELSE LET decrypted ==
                          IF TokenOf(config) # ""
                          THEN [config EXCEPT !.asana.access_token =
                                    decrypt_sensitive_data(key, @)]
                          ELSE config
                  IN  IF validate_config(decrypted)
                      THEN Returned(decrypted)
                      ELSE Returned(get_default_config)

LoadConfig(i) ==
    /\ pc[i] = Idle
    /\ LET r == load_config(encKey[i])
       IN  Complete(Done(i, "load", r.status, r.err, r.value, 0))
    /\ UNCHANGED <<dir, data, keyFile, nextKey, pc, encKey, arg, fd, caller,
                   preCall>>
    /\ UNCHANGED otherVars

(***************************************************************************)
(* Inputs of the store operations                                          *)
(***************************************************************************)
CfgA == MkConfig("tokA", "123", "Proj", 30, DEFAULT_SELECTED_FIELDS, Documents, "800x600")

CfgB == MkConfig("tokB", "", "", 7, <<"name", "notes">>, Home, "1024x768")

ValidInputs == {CfgA, CfgB, get_default_config}

InvalidInputs ==
    {MkConfig("tokA", "123", "Proj", 0, DEFAULT_SELECTED_FIELDS, Documents, "800x600"),
     MkConfig("tokA", "123", "Proj", NonInt, DEFAULT_SELECTED_FIELDS, Documents, "800x600"),
     MkConfig(NonStr, "123", "Proj", 30, DEFAULT_SELECTED_FIELDS, Documents, "800x600"),
     MkConfig("tokA", "123", "Proj", 30, NonList, Documents, "800x600"),
     MkConfig("tokA", "123", "Proj", 30, DEFAULT_SELECTED_FIELDS, Documents, "axb"),
     MkConfig("tokA", "123", "Proj", 30, DEFAULT_SELECTED_FIELDS, Documents, "1x2x3"),
     [asana |-> CfgA.asana, export |-> CfgA.export]}

SaveInputs == ValidInputs \cup InvalidInputs

\* two instances saving documents of different length
ConcInputs == {CfgA, get_default_config}

\* documents another program can leave in the config file
ForeignDocs ==
    {MkConfig(Fernet(0, "tokA"), "123", "Proj", 30, DEFAULT_SELECTED_FIELDS, Documents, "800x600"),
     MkConfig("", "123", "Proj", 0, DEFAULT_SELECTED_FIELDS, Documents, "800x600")}

(***************************************************************************)
(* ConfigInitializer: the configurations it builds                         *)
(***************************************************************************)
ExistingDirs == {"/data/out"}

DefaultConfigFor(documentsExist) ==
    [AppConfig EXCEPT !.export.output_directory =
                          IF documentsExist THEN Documents ELSE Home,
                      !.export.selected_fields = DEFAULT_SELECTED_FIELDS]

UserConfigFor(access_token, output_directory, selected_fields) ==
    LET c1 == IF access_token # ""
              THEN [AppConfig EXCEPT !.asana.access_token = access_token]
              ELSE AppConfig
        c2 == IF output_directory # ""
              THEN [c1 EXCEPT !.export.output_directory =
                                  IF output_directory \in ExistingDirs
                                  THEN output_directory ELSE Documents]
              ELSE c1
    IN  IF selected_fields # <<>>
        THEN [c2 EXCEPT !.export.selected_fields =
                            validate_selected_fields(selected_fields)]
        ELSE c2

is_first_run == ~config_exists

(***************************************************************************)
(* ConfigManager.save_config, step by step                                 *)
(***************************************************************************)
OpOf(c) ==
    CASE c = "direct" -> "save"
      [] c = "init_default" -> "init_default"
      [] OTHER -> "setup"

ErrOf(c) == IF c = "direct" THEN "IOError" ELSE "RuntimeError"

\* save_config is entered with a mapping that passed validate_config
EnterSave(i, config, c) ==
    /\ pc' = [pc EXCEPT ![i] = "save_open"]
    /\ arg' = [arg EXCEPT ![i] = config]
    /\ caller' = [caller EXCEPT ![i] = c]
    /\ preCall' = [preCall EXCEPT ![i] = ConfigSnapshot]

Return(i) ==
    /\ pc' = [pc EXCEPT ![i] = Idle]
    /\ arg' = [arg EXCEPT ![i] = NoValue]
    /\ caller' = [caller EXCEPT ![i] = "none"]
    /\ preCall' = [preCall EXCEPT ![i] = NoSnapshot]

\* setup_application catches whatever its try block raised and
\* returns initialize_default_config()
SetupFallback(i, documentsExist) ==
    /\ EnterSave(i, DefaultConfigFor(documentsExist), "setup_fallback")
    /\ UNCHANGED result

\* save_config returned
SaveSucceeded(i) ==
    /\ Return(i)
    /\ Complete(Done(i, OpOf(caller[i]), "ok", "", arg[i], 0))

\* save_config raised
SaveFailed(i, documentsExist) ==
    IF caller[i] \in {"setup_user", "setup_default"}
    THEN SetupFallback(i, documentsExist)
    ELSE /\ Return(i)
         /\ Complete(Done(i, OpOf(caller[i]), "raise", ErrOf(caller[i]), arg[i], 0))

SaveConfig(i, config) ==
    /\ pc[i] = Idle
    /\ IF validate_config(config)
       THEN /\ EnterSave(i, config, "direct")
            /\ UNCHANGED result
       ELSE /\ Complete(Done(i, "save", "raise", "ValueError", NoValue, 0))
            /\ UNCHANGED <<pc, arg, caller, preCall>>
    /\ UNCHANGED <<dir, data, keyFile, nextKey, encKey, fd>>
    /\ UNCHANGED otherVars

\* open(temp_file, 'w')
SaveOpen(i) ==
    /\ pc[i] = "save_open"
    /\ \E fails \in Faults :
          IF fails
          THEN /\ pc' = [pc EXCEPT ![i] = "save_except"]
               /\ UNCHANGED <<dir, data, fd>>
          ELSE LET n == IF dir[TEMP] # 0 THEN dir[TEMP] ELSE FreeInode(dir, fd)
               IN  /\ dir' = [dir EXCEPT ![TEMP] = n]
                   /\ fd' = [fd EXCEPT ![i] = n]
                   /\ data' = [data EXCEPT ![n] = <<>>]
                   /\ pc' = [pc EXCEPT ![i] = "save_write"]
    /\ UNCHANGED <<keyFile, nextKey, encKey, arg, caller, preCall, result>>
    /\ UNCHANGED otherVars

\* json.dump and the close of the with block: the text reaches the file
\* whole, or only a prefix of it does and the write raises
SaveWrite(i) ==
    /\ pc[i] = "save_write"
    /\ LET text == json_dump(ConfigToSave(encKey[i], arg[i]))
       IN  \E written \in (IF diskFaults THEN 0..Len(text) ELSE {Len(text)}) :
              /\ fd' = [fd EXCEPT ![i] = 0]
              /\ data' = Gc(dir, fd', [data EXCEPT ![fd[i]] =
                                          WriteAt0(@, SubSeq(text, 1, written))])
              /\ pc' = [pc EXCEPT ![i] = IF written = Len(text)
                                         THEN "save_replace" ELSE "save_except"]
    /\ UNCHANGED <<dir, keyFile, nextKey, encKey, arg, caller, preCall, result>>
    /\ UNCHANGED otherVars

\* temp_file.replace(self.config_file)
SaveReplace(i) ==
    /\ pc[i] = "save_replace"
    /\ \E fails \in Faults :
          IF fails \/ dir[TEMP] = 0
          THEN /\ pc' = [pc EXCEPT ![i] = "save_except"]
               /\ UNCHANGED <<dir, data, arg, caller, preCall, result>>
          ELSE /\ dir' = replace_temp(dir)
               /\ data' = Gc(dir', fd, data)
               /\ SaveSucceeded(i)
    /\ UNCHANGED <<keyFile, nextKey, encKey, fd>>
    /\ UNCHANGED otherVars

\* the except block: unlink the temporary file if it exists, then raise
SaveExcept(i) ==
    /\ pc[i] = "save_except"
    /\ dir' = unlink_temp(dir)
    /\ data' = Gc(dir', fd, data)
    /\ \E documentsExist \in BOOLEAN : SaveFailed(i, documentsExist)
    /\ UNCHANGED <<keyFile, nextKey, encKey, fd>>
    /\ UNCHANGED otherVars

(***************************************************************************)
(* ConfigManager.reset_config, step by step                                *)
(***************************************************************************)
ResetFailed(i) ==
    /\ pc' = [pc EXCEPT ![i] = Idle]
    /\ Complete(Done(i, "reset", "raise", "IOError", NoValue, encKey[i]))

\* if self.config_file.exists(): self.config_file.unlink()
ResetConfig(i) ==
    /\ pc[i] = Idle
    /\ nextKey <= MaxKeys
    /\ \E fails \in Faults :
          IF fails /\ config_exists
          THEN /\ ResetFailed(i)
               /\ UNCHANGED <<dir, data>>
          ELSE /\ dir' = [dir EXCEPT ![CONFIG] = 0]
               /\ data' = Gc(dir', fd, data)
               /\ pc' = [pc EXCEPT ![i] = "reset_key"]
               /\ UNCHANGED result
    /\ UNCHANGED <<keyFile, nextKey, encKey, arg, fd, caller, preCall>>
    /\ UNCHANGED otherVars

\* if self.key_file.exists(): self.key_file.unlink()
ResetUnlinkKey(i) ==
    /\ pc[i] = "reset_key"
    /\ \E fails \in Faults :
          IF fails /\ keyFile # 0
          THEN /\ ResetFailed(i)
               /\ UNCHANGED keyFile
          ELSE /\ keyFile' = 0
               /\ pc' = [pc EXCEPT ![i] = "reset_newkey"]
               /\ UNCHANGED result
    /\ UNCHANGED <<dir, data, nextKey, encKey, arg, fd, caller, preCall>>
    /\ UNCHANGED otherVars

\* self._encryption_key = self._get_or_create_key()
ResetNewKey(i) ==
    /\ pc[i] = "reset_newkey"
    /\ KeyAvailable
    /\ \E fails \in Faults :
          IF fails
          THEN /\ ResetFailed(i)
               /\ UNCHANGED <<keyFile, nextKey, encKey>>
          ELSE LET k == get_or_create_key
               IN  /\ encKey' = [encKey EXCEPT ![i] = k.key]
                   /\ keyFile' = k.file
                   /\ nextKey' = k.next
                   /\ pc' = [pc EXCEPT ![i] = Idle]
                   /\ Complete(Done(i, "reset", "ok", "", NoValue, encKey[i]))
    /\ UNCHANGED <<dir, data, arg, fd, caller, preCall>>
    /\ UNCHANGED otherVars

(***************************************************************************)
(* ConfigInitializer                                                       *)
(***************************************************************************)
InitializeDefaultConfig(i) ==
    /\ pc[i] = Idle
    /\ \E documentsExist \in BOOLEAN :
          EnterSave(i, DefaultConfigFor(documentsExist), "init_default")
    /\ UNCHANGED <<dir, data, keyFile, nextKey, encKey, fd, result>>
    /\ UNCHANGED otherVars

\* (access_token, output_directory, selected_fields) of setup_application
SetupInputs ==
    {<<"", "", <<>>>>,
     <<"tokA", "/data/out", <<"notes">>>>,
     <<"", "/missing", <<"bogus", "assignee">>>>}

SetupApplication(i) ==
    /\ pc[i] = Idle
    /\ \E input \in SetupInputs, documentsExist \in BOOLEAN :
          LET access_token == input[1]
              output_directory == input[2]
              selected_fields == input[3]
          IN
          IF is_first_run
          THEN IF access_token # "" \/ output_directory # "" \/ selected_fields # <<>>
               THEN /\ EnterSave(i, UserConfigFor(access_token, output_directory,
                                                  selected_fields), "setup_user")
                    /\ UNCHANGED result
               ELSE /\ EnterSave(i, DefaultConfigFor(documentsExist), "setup_default")
                    /\ UNCHANGED result
          ELSE LET r == load_config(encKey[i])
               IN  IF r.status = "ok"
                   THEN /\ Complete(Done(i, "setup", "ok", "", from_dict(r.value), 0))
                        /\ UNCHANGED <<pc, arg, caller, preCall>>
                   ELSE /\ EnterSave(i, DefaultConfigFor(documentsExist), "setup_fallback")
                        /\ UNCHANGED result
    /\ UNCHANGED <<dir, data, keyFile, nextKey, encKey, fd>>
    /\ UNCHANGED otherVars

(***************************************************************************)
(* Another program rewrites the config file while no operation runs        *)
(***************************************************************************)
ForeignWrite ==
    /\ AllIdle
    /\ config_exists
    /\ \E text \in {json_dump(d) : d \in ForeignDocs}
                   \cup {SubSeq(ConfigText, 1, Len(ConfigText) - 1)} :
          data' = [data EXCEPT ![dir[CONFIG]] = text]
    /\ Complete(Done(0, "foreign", "ok", "", NoValue, 0))
    /\ UNCHANGED <<dir, keyFile, nextKey, pc, encKey, arg, fd, caller, preCall>>
    /\ UNCHANGED otherVars

(***************************************************************************)
(* data/models.py: tasks and the default field catalog                     *)
(***************************************************************************)
PyNone == "<None>"

\* DEFAULT_TASK_FIELDS: name and required flag of each TaskField
DEFAULT_TASK_FIELDS ==
    <<[name |-> "id", required |-> TRUE],
      [name |-> "name", required |-> TRUE],
      [name |-> "created_at", required |-> TRUE],
      [name |-> "modified_at", required |-> FALSE],
      [name |-> "completed", required |-> FALSE],
      [name |-> "assignee", required |-> FALSE],
      [name |-> "due_date", required |-> FALSE],
      [name |-> "notes", required |-> FALSE]>>

\* datetime.isoformat() of a day number
isoformat(d) == "2024-01-" \o ToString(d)

BaseKeys ==
    {"id", "name", "created_at", "modified_at", "completed", "assignee",
     "due_date", "notes"}

base_data(task) ==
    [k \in BaseKeys \cup DOMAIN task.custom_fields |->
        IF k \in DOMAIN task.custom_fields THEN task.custom_fields[k]
        ELSE CASE k = "id" -> task.id
               [] k = "name" -> task.name
               [] k = "created_at" -> isoformat(task.created_at)
               [] k = "modified_at" -> isoformat(task.modified_at)
               [] k = "completed" -> task.completed
               [] k = "assignee" -> task.assignee
               [] k = "due_date" -> IF task.due_date = 0 THEN PyNone
                                    ELSE isoformat(task.due_date)
               [] OTHER -> task.notes]

\* Task.to_dict(selected_fields) with a non-empty selection
to_dict(task, selected_fields) ==
    [k \in {selected_fields[n] : n \in DOMAIN selected_fields}
           \cap DOMAIN base_data(task) |-> base_data(task)[k]]

(***************************************************************************)
(* business/task_manager.py: filter_tasks_by_fields                        *)
(***************************************************************************)
RECURSIVE NamesOf(_, _)
NamesOf(fields, requiredOnly) ==
    IF fields = <<>> THEN <<>>
    ELSE IF requiredOnly /\ ~Head(fields).required
         THEN NamesOf(Tail(fields), requiredOnly)
         ELSE <<Head(fields).name>> \o NamesOf(Tail(fields), requiredOnly)

get_available_field_names == NamesOf(DEFAULT_TASK_FIELDS, FALSE)

\* the required fields without the task name
get_required_field_names_unnamed == <<"id", "created_at">>

get_required_field_names == NamesOf(DEFAULT_TASK_FIELDS, TRUE)

ToSet(list) == {list[n] : n \in DOMAIN list}

RECURSIVE Without(_, _)
Without(list, drop) ==
    IF list = <<>> THEN <<>>
    ELSE IF Contains(drop, Head(list))
         THEN Without(Tail(list), drop)
         ELSE <<Head(list)>> \o Without(Tail(list), drop)

\* list(set(l)): the distinct elements of l in some order
Orderings(list) ==
    {p \in [1..Cardinality(ToSet(list)) -> ToSet(list)] :
        \A a, b \in DOMAIN p : a # b => p[a] # p[b]}

NoLiveCatalog == <<>>

\* the outcome of filter_tasks_by_fields; order is list(set(...))'s choice.
\* tasks and selected_fields are lists and every task is a validated Task,
\* whose to_dict does not raise, so no task is skipped
filter_tasks_by_fields(tasks, selected_fields, available_field_definitions, order) ==
    IF tasks = <<>>
    THEN [status |-> "ok", rows |-> <<>>, fields |-> selected_fields,
          caller |-> selected_fields]
    ELSE IF selected_fields = <<>>
    THEN [status |-> "ValidationError", rows |-> <<>>, fields |-> selected_fields,
          caller |-> selected_fields]
    ELSE
    LET available_fields ==
            IF available_field_definitions # <<>>
            THEN [n \in DOMAIN available_field_definitions |->
                     available_field_definitions[n].key]
            ELSE get_available_field_names
        invalid_fields == FilterSeq(selected_fields,
                                    ToSet(selected_fields) \ ToSet(available_fields))
        valid == FilterSeq(selected_fields, ToSet(available_fields))
        missing_required == Without(get_required_field_names, valid)
        extended == valid \o missing_required
        final == IF missing_required # <<>> THEN order ELSE valid
        callers == IF invalid_fields = <<>> /\ missing_required # <<>>
                   THEN selected_fields \o missing_required
                   ELSE selected_fields
    IN  IF valid = <<>>
        THEN [status |-> "ValidationError", rows |-> <<>>, fields |-> valid,
              caller |-> selected_fields]
        ELSE [status |-> "ok",
              rows |-> [n \in DOMAIN tasks |-> to_dict(tasks[n], final)],
              fields |-> final, caller |-> callers]

TaskA ==
    [id |-> "1", name |-> "Write report", created_at |-> 10, modified_at |-> 11,
     completed |-> FALSE, assignee |-> PyNone, due_date |-> 0, notes |-> "",
     custom_fields |-> <<>>]

TaskB ==
    [id |-> "2", name |-> "Review", created_at |-> 12, modified_at |-> 12,
     completed |-> TRUE, assignee |-> "alice", due_date |-> 20, notes |-> "n",
     custom_fields |-> [custom_1 |-> "high"]]

TaskPool == {TaskA, TaskB}

FilterKeys == {"name", "created_at", "assignee", "custom_1", "bogus"}

LiveCatalogs ==
    {NoLiveCatalog,
     <<[key |-> "name"], [key |-> "created_at"], [key |-> "assignee"],
       [key |-> "custom_1"]>>,
     <<[key |-> "custom_1"], [key |-> "assignee"]>>}

SeqsUpTo(S, n) == UNION {[1..m -> S] : m \in 0..n}

Pending == [status |-> "pending"]

FilterTasksByFields ==
    /\ fOut.status = "pending"
    /\ LET valid == FilterSeq(fSelected,
                              ToSet(IF fAvail # <<>>
                                    THEN [n \in DOMAIN fAvail |-> fAvail[n].key]
                                    ELSE get_available_field_names))
       IN  \E order \in Orderings(valid \o Without(get_required_field_names, valid)) :
              LET r == filter_tasks_by_fields(fTasks, fSelected, fAvail, order)
              IN  /\ fOut' = [status |-> r.status, rows |-> r.rows,
                              fields |-> r.fields, given |-> fSelected]
                  /\ fSelected' = r.caller
    /\ UNCHANGED <<storeVars, vIn, vOut, fTasks, fAvail, dateVars, appVars>>

(***************************************************************************)
(* config_schema.py: validate_selected_fields                              *)
(***************************************************************************)
SchemaKeys == {"name", "created_at", "assignee", "id", "bogus"}

ValidateSelectedFields ==
    /\ vOut.status = "pending"
    /\ vOut' = [status |-> "ok", list |-> validate_selected_fields(vIn)]
    /\ UNCHANGED <<storeVars, vIn, fTasks, fSelected, fAvail, fOut, dateVars,
                   appVars>>

(***************************************************************************)
(* business/task_manager.py: validate_date_range                           *)
(* Dates are day numbers relative to date.today()                          *)
(***************************************************************************)
MAX_DATE_RANGE_DAYS == 365
OneYearDays == 365
today == 0

\* the span check rejects a span of exactly MAX_DATE_RANGE_DAYS
validate_date_range_exclusive(start_date, end_date) ==
    IF start_date > end_date THEN "DateValidationError"
    ELSE IF start_date > today THEN "DateValidationError"
    ELSE IF end_date > today THEN "DateValidationError"
    ELSE IF end_date - start_date >= MAX_DATE_RANGE_DAYS THEN "DateValidationError"
    ELSE IF start_date < today - OneYearDays THEN "DateValidationError"
    ELSE "True"

validate_date_range(start_date, end_date) ==
    IF start_date > end_date THEN "DateValidationError"
    ELSE IF start_date > today THEN "DateValidationError"
    ELSE IF end_date > today THEN "DateValidationError"
    ELSE IF end_date - start_date > MAX_DATE_RANGE_DAYS THEN "DateValidationError"
    ELSE IF start_date < today - OneYearDays THEN "DateValidationError"
    ELSE "True"

ValidateDateRange ==
    /\ dOut = "pending"
    /\ dOut' = validate_date_range(dStart, dEnd)
    /\ UNCHANGED <<storeVars, fieldVars, dStart, dEnd, appVars>>

Dates == (today - PastDays)..(today + FutureDays)

(***************************************************************************)
(* utils/error_handler.py: the error classes, ErrorHandler statistics and  *)
(* the retry_on_error decorator; business/task_manager.py: get_tasks       *)
(***************************************************************************)
MaxRetries == 2
MaxRuns == 2

\* an exception: its class, the class of its __cause__ and its status_code
Err(cls, cause, status) == [cls |-> cls, cause |-> cause, status |-> status]
NoError == Err("none", "none", 0)

\* class -> base class
Bases ==
    [AsanaAPIError |-> "Exception",
     AsanaAuthenticationError |-> "AsanaAPIError",
     AsanaRateLimitError |-> "AsanaAPIError",
     TaskManagerError |-> "Exception",
     AsanaExporterError |-> "Exception",
     APIError |-> "AsanaExporterError",
     NetworkError |-> "AsanaExporterError",
     ValidationError |-> "AsanaExporterError",
     DateValidationError |-> "ValidationError",
     ValueError |-> "Exception",
     Exception |-> "Exception"]

RECURSIVE IsSubclass(_, _)
IsSubclass(cls, base) ==
    \/ cls = base
    \/ cls # "Exception" /\ IsSubclass(Bases[cls], base)

isinstance(e, cls) == IsSubclass(e.cls, cls)

\* ErrorHandler.should_retry
should_retry(error) ==
    IF isinstance(error, "NetworkError") THEN TRUE
    ELSE IF isinstance(error, "APIError")
         THEN error.status = 429 \/ (error.status >= 500 /\ error.status < 600)
         ELSE FALSE

NoStats == [total_errors |-> 0, retry_attempts |-> 0, successful_retries |-> 0]

record_error_stats(stats) ==
    [stats EXCEPT !.total_errors = @ + 1]

record_retry_attempt(stats, success) ==
    [stats EXCEPT !.retry_attempts = @ + 1,
                  !.successful_retries = IF success THEN @ + 1 ELSE @]

\* a date argument that is None
NoDate == 0 - 100000
DEFAULT_DATE_RANGE_DAYS == 30

\* str.isdigit on the project ids used here
isdigit(s) == s \in {"1201", "123", "7"}

validate_project_id(project_id) ==
    IF project_id = "" THEN "ValidationError"
    ELSE IF ~IsStr(project_id) THEN "ValidationError"
    ELSE IF ~isdigit(project_id) THEN "ValidationError"
    ELSE "True"

\* _prepare_date_range: the defaults for missing dates, then validate_date_range
prepare_date_range(start_date, end_date) ==
    LET start == IF start_date = NoDate THEN today - DEFAULT_DATE_RANGE_DAYS
                 ELSE start_date
        end == IF end_date = NoDate THEN today ELSE end_date
    IN  validate_date_range(start, end)

Returns(value) == [status |-> "returned", value |-> value, err |-> NoError]
Raises(err) == [status |-> "raised", value |-> <<>>, err |-> err]

\* one execution of the body of get_tasks; listing is what
\* api_client.get_project_tasks does when it is reached.  calls is 1 when the
\* listing was invoked, errors the number of exceptions ErrorContext recorded
get_tasks(project_id, start_date, end_date, listing) ==
    IF validate_project_id(project_id) # "True"
    THEN [out |-> Raises(Err("ValidationError", "none", 0)), calls |-> 0]
    ELSE IF prepare_date_range(start_date, end_date) # "True"
    THEN [out |-> Raises(Err("DateValidationError", "none", 0)), calls |-> 0]
    ELSE IF listing.status = "returned"
    THEN [out |-> listing, calls |-> 1]
    ELSE [out |-> Raises(Err("TaskManagerError", listing.err.cls, 0)), calls |-> 1]

\* what the decorated function is: get_tasks with its policy, or any other
\* function func under a policy
GetTasksPolicy(project_id, start_date, end_date) ==
    [fn |-> "get_tasks", max_retries |-> 2, delay |-> 1, backoff |-> 2,
     retry_on |-> {"AsanaAPIError"}, project_id |-> project_id,
     start_date |-> start_date, end_date |-> end_date]

FuncPolicy(max_retries, retry_on) ==
    [fn |-> "func", max_retries |-> max_retries, delay |-> 1, backoff |-> 2,
     retry_on |-> retry_on, project_id |-> "", start_date |-> NoDate,
     end_date |-> NoDate]

NoFunction == FuncPolicy(0, {})

\* retry_on_error(max_retries, delay, backoff) on any function, with the
\* default retryability rule
TimedPolicy(max_retries, delay, backoff) ==
    [FuncPolicy(max_retries, {}) EXCEPT !.delay = delay, !.backoff = backoff]

Delays == {1, 3}
Backoffs == {1, 2, 3}

ProjectIds == {"1201", "", "12a", NonStr}
StartDates == {NoDate, today - 5, today + 1}
EndDates == {NoDate, today}

\* what the task listing of the API client can do
ListingOutcomes ==
    {Returns(<<>>), Returns(<<TaskA>>),
     Raises(Err("AsanaAPIError", "none", 0)),
     Raises(Err("AsanaRateLimitError", "none", 0)),
     Raises(Err("AsanaAuthenticationError", "none", 0)),
     Raises(Err("ValueError", "none", 0))}

\* what any other decorated function can do
FuncOutcomes ==
    {Returns(<<>>),
     Raises(Err("NetworkError", "none", 0)),
     Raises(Err("APIError", "none", 429)),
     Raises(Err("APIError", "none", 404)),
     Raises(Err("AsanaAPIError", "none", 0)),
     Raises(Err("ValueError", "none", 0))}

Policies ==
    {GetTasksPolicy(p, s, e) : p \in ProjectIds, s \in StartDates, e \in EndDates}
    \cup {FuncPolicy(m, r) : m \in 0..MaxRetries, r \in {{}, {"AsanaAPIError"}}}
    \cup {TimedPolicy(m, d, b) : m \in 0..MaxRetries, d \in Delays, b \in Backoffs}

\* wrapper(*args): a call of the decorated function
RetryCall ==
    /\ rPc \in {"idle", "returned", "raised"}
    /\ runs < MaxRuns
    /\ \E f \in Policies :
          /\ decorated' = f
          /\ current_delay' = f.delay
    /\ rPc' = "try"
    /\ attempt' = 0
    /\ last_error' = NoError
    /\ listed' = 0
    /\ slept' = <<>>
    /\ rOut' = Pending
    /\ runs' = runs + 1
    /\ tried' = <<>>
    /\ stats_before' = error_stats
    /\ UNCHANGED <<notRetry, error_stats>>

\* one iteration of the for loop of wrapper: func is called; an exception it
\* raises is retried after a sleep, or ends the loop and is raised
RetryAttempt ==
    /\ rPc = "try"
    /\ \E o \in ListingOutcomes \cup FuncOutcomes :
          /\ decorated.fn = "get_tasks" => o \in ListingOutcomes
          /\ decorated.fn = "func" => o \in FuncOutcomes
          /\ LET body == IF decorated.fn = "get_tasks"
                         THEN get_tasks(decorated.project_id, decorated.start_date,
                                        decorated.end_date, o)
                         ELSE [out |-> o, calls |-> 1]
                 r == body.out
                 \* ErrorContext.__exit__ in get_tasks records the exception
                 stats0 == IF decorated.fn = "get_tasks" /\ r.status = "raised"
                           THEN record_error_stats(error_stats)
                           ELSE error_stats
                 retry == IF decorated.retry_on # {}
                          THEN \E t \in decorated.retry_on : isinstance(r.err, t)
                          ELSE should_retry(r.err)
             IN  /\ listed' = listed + body.calls
                 /\ tried' = Append(tried, r)
                 /\ IF r.status = "returned"
                    THEN /\ error_stats' = IF attempt > 0
                                           THEN record_retry_attempt(stats0, TRUE)
                                           ELSE stats0
                         /\ rPc' = "returned"
                         /\ rOut' = r
                         /\ UNCHANGED last_error
                    ELSE /\ last_error' = r.err
                         /\ IF attempt < decorated.max_retries /\ retry
                            THEN /\ error_stats' = record_retry_attempt(stats0, FALSE)
                                 /\ rPc' = "sleep"
                                 /\ UNCHANGED rOut
                            ELSE /\ error_stats' = record_error_stats(stats0)
                                 /\ rPc' = "raised"
                                 /\ rOut' = Raises(r.err)
    /\ UNCHANGED <<notRetry, decorated, attempt,
                   current_delay, slept, runs, stats_before>>

\* the sleep without current_delay *= backoff
RetrySleep_fixed_delay ==
    /\ rPc = "sleep"
    /\ slept' = Append(slept, current_delay)
    /\ current_delay' = current_delay
    /\ attempt' = attempt + 1
    /\ rPc' = "try"
    /\ UNCHANGED <<notRetry, decorated, last_error, listed,
                   rOut, error_stats, runs, tried, stats_before>>

\* time.sleep(current_delay); current_delay *= backoff; the next iteration
RetrySleep ==
    /\ rPc = "sleep"
    /\ slept' = Append(slept, current_delay)
    /\ current_delay' = current_delay * decorated.backoff
    /\ attempt' = attempt + 1
    /\ rPc' = "try"
    /\ UNCHANGED <<notRetry, decorated, last_error, listed,
                   rOut, error_stats, runs, tried, stats_before>>

InitRetry ==
    /\ decorated = NoFunction
    /\ rPc = "idle"
    /\ attempt = 0
    /\ current_delay = 0
    /\ last_error = NoError
    /\ listed = 0
    /\ slept = <<>>
    /\ rOut = Pending
    /\ error_stats = NoStats
    /\ runs = 0
    /\ tried = <<>>
    /\ stats_before = NoStats


(***************************************************************************)
(* business/excel_exporter.py: export_to_excel.  A sheet is the sequence   *)
(* of its rows, a row the sequence of its cell values.  The Japanese       *)
(* literals of the source are written in English.                          *)
(***************************************************************************)
\* "mi-wariate", the text _get_field_value gives a Task without assignee
Unassigned == "Unassigned"
CompletedText == "Done"
IncompleteText == "Not done"

\* config_schema.AVAILABLE_TASK_FIELDS: field name -> display name
DisplayNames ==
    [name |-> "Task name", created_at |-> "Created at",
     modified_at |-> "Modified at", completed |-> "Completion",
     assignee |-> "Assignee", due_date |-> "Due", notes |-> "Notes",
     tags |-> "Tags", projects |-> "Projects", parent |-> "Parent task",
     subtasks |-> "Subtasks", dependencies |-> "Dependencies",
     custom_fields |-> "Custom fields"]

get_field_display_name(field_name) ==
    IF field_name \in DOMAIN DisplayNames THEN DisplayNames[field_name]
    ELSE field_name

\* isinstance(x, dict) for an element of tasks: a Task object has the
\* attribute custom_fields, a row of filter_tasks_by_fields has not
IsDict(x) == "custom_fields" \notin DOMAIN x

\* _get_field_value on a dict row and on a Task object
get_field_value(task, field) ==
    IF IsDict(task)
    THEN IF field \in DOMAIN task THEN task[field] ELSE ""
    ELSE CASE field = "name" -> task.name
           [] field = "created_at" -> task.created_at
           [] field = "modified_at" -> task.modified_at
           [] field = "completed" ->
                 IF task.completed THEN CompletedText ELSE IncompleteText
           [] field = "assignee" ->
                 IF task.assignee = PyNone THEN Unassigned ELSE task.assignee
           [] field = "due_date" -> task.due_date
           [] field = "notes" -> task.notes
           [] OTHER ->
                 IF field \in DOMAIN task.custom_fields
                 THEN task.custom_fields[field] ELSE ""

\* _prepare_data_efficiently: dict rows are used as they are
prepare_data_efficiently(tasks, selected_fields) ==
    IF tasks # <<>> /\ IsDict(tasks[1]) THEN tasks
    ELSE [n \in DOMAIN tasks |->
             [f \in ToSet(selected_fields) |-> get_field_value(tasks[n], f)]]

\* the values that are stored as they are: datetimes, dates, booleans and
\* numbers.  A dict row has a boolean under completed; a row made from a
\* Task has datetimes under created_at and modified_at and a date or None
\* (0) under due_date; every other value is a string or None
StoredAsIs(row, field, fromTasks) ==
    \/ ~fromTasks /\ field = "completed"
    \/ fromTasks /\ field \in {"created_at", "modified_at"}
    \/ fromTasks /\ field = "due_date" /\ row[field] # 0

\* the cell value _write_batch_data sets for one field of one row
cell_value(row, field, fromTasks) ==
    IF field \notin DOMAIN row THEN ""
    ELSE IF StoredAsIs(row, field, fromTasks) THEN row[field]
    ELSE IF fromTasks /\ field = "due_date" THEN ""
    ELSE IF row[field] = PyNone THEN ""
    ELSE row[field]

write_headers(selected_fields, field_labels) ==
    [c \in DOMAIN selected_fields |->
        IF selected_fields[c] \in DOMAIN field_labels
        THEN field_labels[selected_fields[c]]
        ELSE get_field_display_name(selected_fields[c])]

write_data_in_batches(rows, selected_fields, fromTasks) ==
    [n \in DOMAIN rows |->
        [c \in DOMAIN selected_fields |->
            cell_value(rows[n], selected_fields[c], fromTasks)]]

\* str.strip and str.endswith('.xlsx') on the file names used here
strip(s) == IF s = " " THEN "" ELSE s
EndsWithXlsx(s) == s \in {"out.xlsx"}

prepare_filename(filename) ==
    IF filename = "" \/ ~IsStr(filename) THEN "ValidationError"
    ELSE IF strip(filename) = "" THEN "ValidationError"
    ELSE IF EndsWithXlsx(strip(filename)) THEN strip(filename)
    ELSE strip(filename) \o ".xlsx"

NoSheet == <<>>
NoLabels == <<>>

\* export_to_excel without the check of lines 74-76, that tasks is not empty
export_to_excel_unvalidated(tasks, filename, selected_fields, field_labels, disk) ==
    IF selected_fields = <<>>
    THEN [status |-> "ValidationError", path |-> "", sheet |-> NoSheet]
    ELSE IF prepare_filename(filename) = "ValidationError"
    THEN [status |-> "ValidationError", path |-> "", sheet |-> NoSheet]
    ELSE IF ~disk.writable
    THEN [status |-> "FileError", path |-> "", sheet |-> NoSheet]
    ELSE IF disk.save # "ok"
    THEN [status |-> "FileError", path |-> "", sheet |-> NoSheet]
    ELSE LET fromTasks == tasks # <<>> /\ ~IsDict(tasks[1])
             prepared == prepare_data_efficiently(tasks, selected_fields)
         IN  [status |-> "ok", path |-> prepare_filename(filename),
              sheet |-> <<write_headers(selected_fields, field_labels)>>
                        \o write_data_in_batches(prepared, selected_fields,
                                                 fromTasks)]

\* export_to_excel; disk.writable is what validate_output_path finds and
\* disk.save what workbook.save does
export_to_excel(tasks, filename, selected_fields, field_labels, disk) ==
    IF tasks = <<>>
    THEN [status |-> "ValidationError", path |-> "", sheet |-> NoSheet]
    ELSE IF selected_fields = <<>>
    THEN [status |-> "ValidationError", path |-> "", sheet |-> NoSheet]
    ELSE IF prepare_filename(filename) = "ValidationError"
    THEN [status |-> "ValidationError", path |-> "", sheet |-> NoSheet]
    ELSE IF ~disk.writable
    THEN [status |-> "FileError", path |-> "", sheet |-> NoSheet]
    ELSE IF disk.save # "ok"
    THEN [status |-> "FileError", path |-> "", sheet |-> NoSheet]
    ELSE LET fromTasks == ~IsDict(tasks[1])
             prepared == prepare_data_efficiently(tasks, selected_fields)
         IN  [status |-> "ok", path |-> prepare_filename(filename),
              sheet |-> <<write_headers(selected_fields, field_labels)>>
                        \o write_data_in_batches(prepared, selected_fields,
                                                 fromTasks)]

Disks ==
    {[writable |-> TRUE, save |-> "ok"],
     [writable |-> FALSE, save |-> "ok"],
     [writable |-> TRUE, save |-> "PermissionError"],
     [writable |-> TRUE, save |-> "OSError"]}

Filenames == {"out.xlsx", "out", " ", ""}

\* asana_client.get_task_fields: the basic fields, then the custom fields
basic_fields ==
    <<[key |-> "id", label |-> "Task ID"],
      [key |-> "name", label |-> "Task name"],
      [key |-> "created_at", label |-> "Created at"],
      [key |-> "modified_at", label |-> "Modified at"],
      [key |-> "completed", label |-> "Completion"],
      [key |-> "assignee", label |-> "Assignee"],
      [key |-> "due_date", label |-> "Due date"],
      [key |-> "notes", label |-> "Notes"]>>

CustomFieldPool == <<[key |-> "custom_1", label |-> "Priority"]>>

get_task_fields(custom_fields) == basic_fields \o custom_fields

\* {f['key']: f['label'] for f in fields}: the last definition of a key wins
field_labels_of(fields) ==
    [k \in {fields[n].key : n \in DOMAIN fields} |->
        fields[CHOOSE n \in DOMAIN fields :
                  /\ fields[n].key = k
                  /\ \A m \in DOMAIN fields : fields[m].key = k => m <= n].label]

TaskC ==
    [id |-> "3", name |-> "Plan", created_at |-> 19, modified_at |-> 19,
     completed |-> FALSE, assignee |-> PyNone, due_date |-> 0, notes |-> "",
     custom_fields |-> <<>>]

MaxRows == 3

SheetTasks == {TaskA, TaskB, TaskC}

SheetSelections ==
    {<<"name", "created_at", "assignee">>, <<"assignee", "completed">>,
     <<"id", "name", "created_at", "due_date">>, <<"bogus">>, <<>>}

SheetCatalogs == {get_task_fields(<<>>), get_task_fields(CustomFieldPool)}

\* the export of _export_worker: filter_tasks_by_fields on the Task objects,
\* then export_to_excel on its rows with the same selected_fields list
ExportFiltered ==
    /\ xOut.status = "pending"
    /\ LET available == [n \in DOMAIN xFields |-> xFields[n].key]
           valid == FilterSeq(xSelected, ToSet(available))
           missing == Without(get_required_field_names, valid)
           \* list(set(...)) runs only when a required field was missing
           orders == IF missing = <<>> THEN {valid} ELSE Orderings(valid \o missing)
       IN  \E order \in orders :
              LET r == filter_tasks_by_fields(xTasks, xSelected, xFields, order)
                  x == IF r.status = "ok"
                       THEN export_to_excel(r.rows, xFilename, r.caller,
                                            field_labels_of(xFields), xDisk)
                       ELSE [status |-> r.status, path |-> "", sheet |-> NoSheet]
              IN  /\ xOut' = [status |-> x.status, sheet |-> x.sheet,
                              columns |-> r.caller, given |-> xSelected,
                              filtered |-> TRUE]
                  /\ xSelected' = r.caller
    /\ UNCHANGED <<notSheet, xTasks, xFields, xFilename, xDisk>>

\* export_to_excel on Task objects
ExportTasks ==
    /\ xOut.status = "pending"
    /\ LET x == export_to_excel(xTasks, xFilename, xSelected, NoLabels, xDisk)
       IN  xOut' = [status |-> x.status, sheet |-> x.sheet, columns |-> xSelected,
                    given |-> xSelected, filtered |-> FALSE]
    /\ UNCHANGED <<notSheet, xTasks, xSelected, xFields, xFilename, xDisk>>

InitSheet ==
    /\ xTasks = <<>>
    /\ xSelected = <<>>
    /\ xFields = basic_fields
    /\ xFilename = "out.xlsx"
    /\ xDisk = [writable |-> TRUE, save |-> "ok"]
    /\ xOut = Pending

(***************************************************************************)
(* gui/main_window.py: construction, the export worker thread and the      *)
(* callbacks it posts with root.after(0, ...), which the Tk main loop runs *)
(* in the order they were posted                                           *)
(***************************************************************************)
\* "mi-settei", the text shown when no project name is stored
Placeholder == "Unset"
StatusConfigure == "Set the API token and the project with the Settings button"
StatusReady == "Export ready"
StatusLoadFailed == "Loading the settings failed"
StatusStarting == "Starting the export"
StatusInvalid == "Invalid input"

\* a date field whose text strptime cannot parse
BadDate == 0 - 200000

\* a stored configuration whose asana section has no selected_project_name
CfgUnnamed ==
    [asana |-> [access_token |-> "tokA", selected_project_id |-> "123"],
     export |-> [default_date_range |-> 30, selected_fields |-> <<"assignee">>,
                 output_directory |-> Documents],
     ui |-> [window_size |-> "800x600", last_export_path |-> ""]]

CfgNoFields == MkConfig("tokA", "1201", "Proj", 30, <<>>, Documents, "800x600")

CfgReady == MkConfig("tokA", "1201", "Proj", 30, <<"name", "assignee">>, Documents,
                     "800x600")

\* what config_manager.load_config can do
LoadOutcomes ==
    {Returns(get_default_config), Returns(CfgReady),
     Returns(CfgUnnamed), Returns(CfgNoFields),
     Raises(Err("ValueError", "none", 0))}

\* load_initial_settings: what the window shows after construction
load_initial_settings(loaded) ==
    IF loaded.status = "raised"
    THEN [project_var |-> "", status_var |-> StatusLoadFailed, preset |-> FALSE]
    ELSE LET project_name == Get(Get(loaded.value, "asana", <<>>),
                                 "selected_project_name", Placeholder)
         IN  [project_var |-> project_name,
              status_var |-> IF project_name = Placeholder THEN StatusConfigure
                             ELSE StatusReady,
              preset |-> TRUE]

\* MainWindow(): setup_ui and load_initial_settings
ConstructMainWindow ==
    /\ window = "none"
    /\ \E loaded \in LoadOutcomes :
          LET shown == load_initial_settings(loaded)
          IN  /\ stored' = loaded
              /\ project_var' = shown.project_var
              /\ status_var' = shown.status_var
              /\ start_date_var' = IF shown.preset THEN today - 30 ELSE BadDate
              /\ end_date_var' = IF shown.preset THEN today ELSE BadDate
    /\ window' = "open"
    /\ UNCHANGED <<notWindow, progress_var, export_btn, completion_filter_var,
                   wPc, wLocals, afterQueue, posted, outcome, exported>>

\* the texts the user types into the date fields: the preset, text that is
\* no date, and a day in the future
DateEntries == {<<today - 30, today>>, <<BadDate, BadDate>>, <<today + 1, today + 1>>}

\* the user types into the date fields
EditDates ==
    /\ window = "open"
    /\ \E entry \in DateEntries :
          /\ start_date_var' = entry[1]
          /\ end_date_var' = entry[2]
    /\ UNCHANGED <<notWindow, window, stored, project_var, status_var, progress_var,
                   export_btn, completion_filter_var, wPc, wLocals,
                   afterQueue, posted, outcome, exported>>

\* the user picks a completion filter
SetCompletionFilter ==
    /\ window = "open"
    /\ completion_filter_var' \in {"both", "completed", "incomplete"}
    /\ UNCHANGED <<notWindow, window, stored, project_var, status_var, progress_var,
                   export_btn, start_date_var, end_date_var, wPc, wLocals,
                   afterQueue, posted, outcome, exported>>

\* _validate_inputs
validate_inputs(loaded, start_date, end_date) ==
    /\ loaded.status = "returned"
    /\ Get(Get(loaded.value, "asana", <<>>), "access_token", "") # ""
    /\ Get(Get(loaded.value, "asana", <<>>), "selected_project_id", "") # ""
    /\ start_date # BadDate
    /\ end_date # BadDate
    /\ start_date <= end_date

\* the run's task list has not come out empty (of the fetch, or of the
\* completion filter) and no file exists at the chosen path
NoExport == [emptied |-> "no", file |-> "none"]

\* on_export_click: a click on the enabled export control, with a file chosen
OnExportClick ==
    /\ window = "open"
    /\ export_btn = "normal"
    /\ \E loaded \in LoadOutcomes :
          IF validate_inputs(loaded, start_date_var, end_date_var)
          THEN /\ export_btn' = "disabled"
               /\ progress_var' = 0
               /\ status_var' = StatusStarting
               /\ wPc' = "prepare"
               /\ posted' = <<>>
               /\ outcome' = <<>>
               /\ exported' = NoExport
          ELSE /\ status_var' = StatusInvalid
               /\ UNCHANGED <<export_btn, progress_var, wPc, posted, outcome,
                              exported>>
    /\ UNCHANGED <<notWindow, window, stored, project_var, completion_filter_var,
                   start_date_var, end_date_var, wLocals, afterQueue>>

\* the local variables of _export_worker
NoLocals ==
    [config |-> <<>>, start_date |-> BadDate, end_date |-> BadDate,
     tasks |-> <<>>, fields |-> <<>>, selected_fields |-> <<>>,
     filtered_data |-> <<>>]

Progress(value) == [kind |-> "progress", value |-> value]
Completed == [kind |-> "completed", value |-> 100]
Failed == [kind |-> "failed", value |-> 0]

\* the except block of _export_worker: the failure callback is posted and
\* the thread ends
WorkerFails ==
    /\ afterQueue' = Append(afterQueue, Failed)
    /\ wPc' = "none"
    /\ UNCHANGED posted

\* root.after(0, lambda: self._update_progress(p, ...)) for each p of ps
Post(ps) ==
    /\ afterQueue' = afterQueue \o [n \in DOMAIN ps |-> Progress(ps[n])]
    /\ posted' = posted \o ps

\* _export_worker, lines 308-320: load_config, AsanaClient, the dates, the
\* project id, progress 10
WorkerPrepare ==
    /\ wPc = "prepare"
    /\ \E loaded \in LoadOutcomes :
          LET asana == Get(loaded.value, "asana", <<>>)
              ok == /\ loaded.status = "returned"
                    /\ "access_token" \in DOMAIN asana
                    /\ asana["access_token"] # ""
                    /\ start_date_var # BadDate
                    /\ end_date_var # BadDate
                    /\ "selected_project_id" \in DOMAIN asana
          IN  IF ok
              THEN /\ wLocals' = [NoLocals EXCEPT !.config = loaded.value,
                                                  !.start_date = start_date_var,
                                                  !.end_date = end_date_var]
                   /\ Post(<<10>>)
                   /\ wPc' = "fetch"
              ELSE /\ WorkerFails
                   /\ wLocals' = NoLocals
    /\ UNCHANGED <<notWindow, window, stored, project_var, status_var, progress_var,
                   export_btn, completion_filter_var, start_date_var,
                   end_date_var, outcome, exported>>

\* what get_project_tasks can do for the worker
WorkerListings ==
    {Returns(<<>>), Returns(<<TaskA>>), Returns(<<TaskA, TaskB>>),
     Raises(Err("AsanaAPIError", "none", 0))}

\* lines 322-325: get_tasks, progress 40.  The errors get_tasks raises are not
\* of a class its retry policy retries, so the wrapper passes them on
WorkerFetch ==
    /\ wPc = "fetch"
    /\ \E listing \in WorkerListings :
          LET r == get_tasks(wLocals.config["asana"]["selected_project_id"],
                             wLocals.start_date, wLocals.end_date, listing).out
          IN  IF r.status = "returned"
              THEN /\ wLocals' = [wLocals EXCEPT !.tasks = r.value]
                   /\ exported' = [exported EXCEPT !.emptied =
                                      IF r.value = <<>> THEN "fetched" ELSE "no"]
                   /\ Post(<<40>>)
                   /\ wPc' = "fields"
              ELSE /\ WorkerFails
                   /\ wLocals' = NoLocals
                   /\ UNCHANGED exported
    /\ UNCHANGED <<notWindow, window, stored, project_var, status_var, progress_var,
                   export_btn, completion_filter_var, start_date_var,
                   end_date_var, outcome>>

\* [t for t in tasks if t.completed] and its complement
RECURSIVE ByCompletion(_, _)
ByCompletion(tasks, completed) ==
    IF tasks = <<>> THEN <<>>
    ELSE IF Head(tasks).completed = completed
         THEN <<Head(tasks)>> \o ByCompletion(Tail(tasks), completed)
         ELSE ByCompletion(Tail(tasks), completed)

\* the percentages lines 327-342 post: 50 before the field catalog is
\* fetched, then 45 when a completion filter is applied
fields_step_posts(completion_filter) ==
    IF completion_filter \in {"completed", "incomplete"} THEN <<50, 45>>
    ELSE <<50>>

\* lines 327-342: progress 50, get_task_fields, the selected fields, the
\* completion filter with progress 45
WorkerFields ==
    /\ wPc = "fields"
    /\ \E custom \in {<<>>, CustomFieldPool} :
          wLocals' =
             [wLocals EXCEPT
                !.fields = get_task_fields(custom),
                !.selected_fields =
                    Get(Get(wLocals.config, "export", <<>>), "selected_fields",
                        <<"name", "created_at", "assignee", "completed",
                          "due_date">>),
                !.tasks = CASE completion_filter_var = "completed" ->
                                 ByCompletion(wLocals.tasks, TRUE)
                            [] completion_filter_var = "incomplete" ->
                                 ByCompletion(wLocals.tasks, FALSE)
                            [] OTHER -> wLocals.tasks]
    /\ Post(fields_step_posts(completion_filter_var))
    /\ wPc' = "filter"
    /\ exported' = [exported EXCEPT !.emptied =
                       IF @ = "no" /\ wLocals'.tasks = <<>> THEN "filtered" ELSE @]
    /\ UNCHANGED <<notWindow, window, stored, project_var, status_var, progress_var,
                   export_btn, completion_filter_var, start_date_var,
                   end_date_var, outcome>>

\* lines 344-346: filter_tasks_by_fields, progress 70
WorkerFilter ==
    /\ wPc = "filter"
    /\ LET available == [n \in DOMAIN wLocals.fields |-> wLocals.fields[n].key]
           valid == FilterSeq(wLocals.selected_fields, ToSet(available))
           missing == Without(get_required_field_names, valid)
           \* the worker uses the rows, which are dicts, and its own list:
           \* the order list(set(...)) gives the filter's list does not reach it
           r == filter_tasks_by_fields(wLocals.tasks, wLocals.selected_fields,
                                       wLocals.fields, valid \o missing)
       IN  IF r.status = "ok"
           THEN /\ wLocals' = [wLocals EXCEPT !.filtered_data = r.rows,
                                              !.selected_fields = r.caller]
                /\ Post(<<70>>)
                /\ wPc' = "write"
           ELSE /\ WorkerFails
                /\ wLocals' = NoLocals
    /\ UNCHANGED <<notWindow, window, stored, project_var, status_var, progress_var,
                   export_btn, completion_filter_var, start_date_var,
                   end_date_var, outcome, exported>>

\* what is at the chosen path after export_to_excel: the workbook when it
\* returned, nothing when it raised before workbook.save, and nothing or a
\* torn file when workbook.save raised OSError
saved_file(x, disk) ==
    IF x.status = "ok" THEN {"saved"}
    ELSE IF x.status = "FileError" /\ disk.writable /\ disk.save = "OSError"
    THEN {"none", "torn"}
    ELSE {"none"}

\* lines 348-357: export_to_excel, then the completion callback is posted
WorkerWrite ==
    /\ wPc = "write"
    /\ \E disk \in Disks :
          LET x == export_to_excel(wLocals.filtered_data, "out.xlsx",
                                   wLocals.selected_fields,
                                   field_labels_of(wLocals.fields), disk)
          IN  /\ IF x.status = "ok"
                 THEN /\ afterQueue' = Append(afterQueue, Completed)
                      /\ wPc' = "none"
                      /\ UNCHANGED posted
                 ELSE WorkerFails
              /\ exported' \in {[exported EXCEPT !.file = f] :
                                   f \in saved_file(x, disk)}
    /\ wLocals' = NoLocals
    /\ UNCHANGED <<notWindow, window, stored, project_var, status_var, progress_var,
                   export_btn, completion_filter_var, start_date_var,
                   end_date_var, outcome>>

\* the widgets after _export_completed and after _export_failed
export_completed == [progress_var |-> 100, export_btn |-> "normal"]

export_failed_locked == [progress_var |-> 0, export_btn |-> "disabled"]

export_failed == [progress_var |-> 0, export_btn |-> "normal"]

\* the Tk main loop runs the callback posted first
Dispatch ==
    /\ afterQueue # <<>>
    /\ LET msg == Head(afterQueue)
       IN  CASE msg.kind = "progress" ->
                  /\ progress_var' = msg.value
                  /\ status_var' = "progress"
                  /\ UNCHANGED <<export_btn, outcome>>
             [] msg.kind = "completed" ->
                  /\ progress_var' = export_completed.progress_var
                  /\ export_btn' = export_completed.export_btn
                  /\ status_var' = "completed"
                  /\ outcome' = Append(outcome, "completed")
             [] OTHER ->
                  /\ progress_var' = export_failed.progress_var
                  /\ export_btn' = export_failed.export_btn
                  /\ status_var' = "failed"
                  /\ outcome' = Append(outcome, "failed")
    /\ afterQueue' = Tail(afterQueue)
    /\ UNCHANGED <<notWindow, window, stored, project_var, completion_filter_var,
                   start_date_var, end_date_var, wPc, wLocals, posted, exported>>

InitWindow ==
    /\ window = "none"
    /\ stored = Returns(get_default_config)
    /\ project_var = ""
    /\ status_var = ""
    /\ progress_var = 0
    /\ export_btn = "normal"
    /\ completion_filter_var = "both"
    /\ start_date_var = BadDate
    /\ end_date_var = BadDate
    /\ wPc = "none"
    /\ wLocals = NoLocals
    /\ afterQueue = <<>>
    /\ posted = <<>>
    /\ outcome = <<>>
    /\ exported = NoExport

(***************************************************************************)
(* gui/settings_window.py: the settings window, the worker threads its     *)
(* handlers start and the callbacks the threads post with                  *)
(* window.after(0, ...), which the Tk main loop runs in posting order      *)
(***************************************************************************)
\* worker threads started and not yet handled, and live clients created
MaxThreads == 2
MaxClients == 2

\* what load_config returns when the window is constructed
SettingsConfigs == {get_default_config, CfgReady}

\* what the user types in the token entry and in the project combobox
Tokens == {"", "tokA"}
TypedNames == {"Typed"}

\* what get_projects returns
ProjectLists ==
    {<<>>,
     <<[id |-> "1201", name |-> "Proj"], [id |-> "7", name |-> "Other"]>>}

\* the check boxes the user toggles
ToggledFields == {"notes"}

\* key.startswith('custom_')
startswith_custom(key) == key \in {"custom_1"}

\* field.get('required', False) of the entries of the catalog
required(field) == field.key \in {"name", "created_at"}

\* the list _populate_default_fields installs
default_fields == basic_fields

\* the field_vars dict, in insertion order: basic fields, then custom fields;
\* a required basic field is checked whatever selected_fields holds
create_field_checkboxes(fields, selected_fields) ==
    IF fields = <<>> THEN <<>>
    ELSE LET basic == SelectSeq(fields, LAMBDA f : ~startswith_custom(f.key))
             custom == SelectSeq(fields, LAMBDA f : startswith_custom(f.key))
         IN  [n \in 1..Len(basic) |->
                 [key |-> basic[n].key,
                  on |-> Contains(selected_fields, basic[n].key)
                             \/ required(basic[n])]]
             \o [n \in 1..Len(custom) |->
                 [key |-> custom[n].key,
                  on |-> Contains(selected_fields, custom[n].key)]]

\* [key for key, var in field_vars.items() if var.get()]
checked_fields(fieldVarsDict) ==
    LET on == SelectSeq(fieldVarsDict, LAMBDA v : v.on)
    IN  [n \in 1..Len(on) |-> on[n].key]

\* the id of the first project of the list with that name, '' when none has
project_id_of(name, projectList) ==
    IF \E n \in DOMAIN projectList : projectList[n].name = name
    THEN projectList[CHOOSE n \in DOMAIN projectList :
                        /\ projectList[n].name = name
                        /\ \A m \in 1..(n - 1) : projectList[m].name # name].id
    ELSE ""

Thread(target, threadArg) == [target |-> target, arg |-> threadArg]

Callback(name, projectList, fields) ==
    [callback |-> name, projects |-> projectList, fields |-> fields]

\* the thread _update_available_fields starts, if it starts one
update_available_fields(client, name, projectList) ==
    IF client = 0 \/ name = "" THEN <<>>
    ELSE IF project_id_of(name, projectList) = "" THEN <<>>
    ELSE <<Thread("fields", project_id_of(name, projectList))>>

\* the thread refresh_projects starts, and the state of the combobox
refresh_projects(token, combobox) ==
    IF strip(token) = ""
    THEN [threads |-> <<>>, combobox |-> combobox]
    ELSE [threads |-> <<Thread("projects", strip(token))>>,
          combobox |-> "disabled"]

\* _validate_settings: whether it passes, and the check boxes it leaves
validate_settings(token, name, fieldVarsDict, fields, answer) ==
    LET selected == checked_fields(fieldVarsDict)
        missing_required ==
            {f.key : f \in {g \in ToSet(fields) :
                               required(g) /\ ~Contains(selected, g.key)}}
    IN  IF strip(token) = "" THEN [ok |-> FALSE, field_vars |-> fieldVarsDict]
        ELSE IF name = "" THEN [ok |-> FALSE, field_vars |-> fieldVarsDict]
        ELSE IF selected = <<>> THEN [ok |-> FALSE, field_vars |-> fieldVarsDict]
        ELSE IF missing_required = {} THEN [ok |-> TRUE, field_vars |-> fieldVarsDict]
        ELSE IF answer
             THEN [ok |-> TRUE,
                   field_vars |->
                       [n \in DOMAIN fieldVarsDict |->
                           IF fieldVarsDict[n].key \in missing_required
                           THEN [fieldVarsDict[n] EXCEPT !.on = TRUE]
                           ELSE fieldVarsDict[n]]]
             ELSE [ok |-> FALSE, field_vars |-> fieldVarsDict]

\* on_close: the client the window holds now is closed
on_close(clientList, client) ==
    IF client = 0 THEN clientList
    ELSE [clientList EXCEPT ![client].closed = TRUE]

Started == Len(threads) + Len(settingsQueue)

WithoutThread(i) == [n \in 1..(Len(threads) - 1) |->
                        IF n < i THEN threads[n] ELSE threads[n + 1]]

\* __init__, load_current_settings and _populate_default_fields
OpenSettings ==
    /\ toplevel = "none"
    /\ \E loaded \in SettingsConfigs :
          /\ current_config' = loaded
          /\ api_token_var' = loaded.asana.access_token
          /\ selected_project_var' = loaded.asana.selected_project_name
          /\ field_vars' = create_field_checkboxes(default_fields,
                                                   loaded.export.selected_fields)
    /\ toplevel' = "open"
    /\ availableFields' = default_fields
    /\ UNCHANGED <<notSettings, projects, current_api_client, clients,
                   test_button, project_combobox, threads, settingsQueue, saved>>

\* the user edits the token entry
EditToken ==
    /\ toplevel = "open"
    /\ \E t \in Tokens : api_token_var' = t
    /\ UNCHANGED <<notSettings, toplevel, current_config, selected_project_var,
                   projects, availableFields, field_vars, current_api_client,
                   clients, test_button, project_combobox, threads,
                   settingsQueue, saved>>

\* the user types a name in the project combobox
TypeProject ==
    /\ toplevel = "open"
    /\ project_combobox = "normal"
    /\ \E n \in TypedNames : selected_project_var' = n
    /\ UNCHANGED <<notSettings, toplevel, current_config, api_token_var,
                   projects, availableFields, field_vars, current_api_client,
                   clients, test_button, project_combobox, threads,
                   settingsQueue, saved>>

\* the user picks a project of the drop-down list: _on_project_selected
SelectProject ==
    /\ toplevel = "open"
    /\ project_combobox # "disabled"
    /\ \E n \in DOMAIN projects :
          LET started == update_available_fields(current_api_client,
                                                 projects[n].name, projects)
          IN  /\ Started + Len(started) <= MaxThreads
              /\ selected_project_var' = projects[n].name
              /\ threads' = threads \o started
    /\ UNCHANGED <<notSettings, toplevel, current_config, api_token_var,
                   projects, availableFields, field_vars, current_api_client,
                   clients, test_button, project_combobox, settingsQueue, saved>>

\* the user clicks a check box that is not disabled
ToggleField ==
    /\ toplevel = "open"
    /\ \E n \in DOMAIN field_vars :
          /\ field_vars[n].key \in ToggledFields
          /\ field_vars' = [field_vars EXCEPT ![n].on = ~@]
    /\ UNCHANGED <<notSettings, toplevel, current_config, api_token_var,
                   selected_project_var, projects, availableFields,
                   current_api_client, clients, test_button, project_combobox,
                   threads, settingsQueue, saved>>

\* the connection test button
TestConnection ==
    /\ toplevel = "open"
    /\ test_button = "normal"
    /\ IF strip(api_token_var) = ""
       THEN UNCHANGED <<test_button, threads>>
       ELSE /\ Started < MaxThreads
            /\ test_button' = "disabled"
            /\ threads' = Append(threads, Thread("test", strip(api_token_var)))
    /\ UNCHANGED <<notSettings, toplevel, current_config, api_token_var,
                   selected_project_var, projects, availableFields, field_vars,
                   current_api_client, clients, project_combobox,
                   settingsQueue, saved>>

\* the refresh button of the project section, which no handler disables
RefreshProjects ==
    /\ toplevel = "open"
    /\ LET r == refresh_projects(api_token_var, project_combobox)
       IN  /\ Started + Len(r.threads) <= MaxThreads
           /\ threads' = threads \o r.threads
           /\ project_combobox' = r.combobox
    /\ UNCHANGED <<notSettings, toplevel, current_config, api_token_var,
                   selected_project_var, projects, availableFields, field_vars,
                   current_api_client, clients, test_button, settingsQueue,
                   saved>>

\* _test_connection_worker returns or raises
TestConnectionWorker ==
    /\ toplevel = "open"
    /\ \E i \in DOMAIN threads :
          /\ threads[i].target = "test"
          /\ threads' = WithoutThread(i)
          /\ \E name \in {"connection_test_success", "connection_test_failed"} :
                settingsQueue' = Append(settingsQueue, Callback(name, <<>>, <<>>))
    /\ UNCHANGED <<notSettings, toplevel, current_config, api_token_var,
                   selected_project_var, projects, availableFields, field_vars,
                   current_api_client, clients, test_button, project_combobox,
                   saved>>

\* _refresh_projects_worker: get_projects returns a list or raises
RefreshProjectsWorker ==
    /\ toplevel = "open"
    /\ \E i \in DOMAIN threads :
          /\ threads[i].target = "projects"
          /\ threads' = WithoutThread(i)
          /\ \/ \E fetched \in ProjectLists :
                   settingsQueue' = Append(settingsQueue,
                                       Callback("projects_loaded", fetched, <<>>))
             \/ settingsQueue' = Append(settingsQueue,
                                     Callback("projects_load_failed", <<>>, <<>>))
    /\ UNCHANGED <<notSettings, toplevel, current_config, api_token_var,
                   selected_project_var, projects, availableFields, field_vars,
                   current_api_client, clients, test_button, project_combobox,
                   saved>>

\* _update_fields_worker: get_task_fields catches what it raises itself
UpdateFieldsWorker ==
    /\ toplevel = "open"
    /\ \E i \in DOMAIN threads :
          /\ threads[i].target = "fields"
          /\ threads' = WithoutThread(i)
          /\ \E custom \in {<<>>, CustomFieldPool} :
                settingsQueue' = Append(settingsQueue,
                    Callback("fields_loaded", <<>>, get_task_fields(custom)))
    /\ UNCHANGED <<notSettings, toplevel, current_config, api_token_var,
                   selected_project_var, projects, availableFields, field_vars,
                   current_api_client, clients, test_button, project_combobox,
                   saved>>

\* _connection_test_success: AsanaClient raises ValueError for an empty
\* token, which ends the handler after the button is enabled
connection_test_success ==
    IF strip(api_token_var) = ""
    THEN [clients |-> clients, client |-> current_api_client, threads |-> <<>>,
          combobox |-> project_combobox]
    ELSE LET r == refresh_projects(api_token_var, project_combobox)
         IN  [clients |-> Append(clients, [closed |-> FALSE]),
              client |-> Len(clients) + 1,
              threads |-> r.threads,
              combobox |-> r.combobox]

\* _projects_loaded
projects_loaded(fetched) ==
    LET current_project_id == current_config.asana.selected_project_id
        found == current_project_id # ""
                 /\ \E n \in DOMAIN fetched : fetched[n].id = current_project_id
        name == IF found
                THEN fetched[CHOOSE n \in DOMAIN fetched :
                         /\ fetched[n].id = current_project_id
                         /\ \A m \in 1..(n - 1) :
                                fetched[m].id # current_project_id].name
                ELSE selected_project_var
    IN  [name |-> name,
         threads |-> IF found
                     THEN update_available_fields(current_api_client, name, fetched)
                     ELSE <<>>]

\* _fields_loaded: the check boxes are rebuilt from the loaded configuration
fields_loaded(fields) ==
    create_field_checkboxes(fields, current_config.export.selected_fields)

\* the Tk main loop runs the callback posted first
SettingsDispatch ==
    /\ toplevel = "open"
    /\ settingsQueue # <<>>
    /\ settingsQueue' = Tail(settingsQueue)
    /\ LET call == Head(settingsQueue)
       IN  CASE call.callback = "connection_test_success" ->
                  /\ Len(clients) < MaxClients
                  /\ test_button' = "normal"
                  /\ clients' = connection_test_success.clients
                  /\ current_api_client' = connection_test_success.client
                  /\ threads' = threads \o connection_test_success.threads
                  /\ project_combobox' = connection_test_success.combobox
                  /\ UNCHANGED <<projects, selected_project_var,
                                 availableFields, field_vars>>
             [] call.callback = "connection_test_failed" ->
                  /\ test_button' = "normal"
                  /\ UNCHANGED <<clients, current_api_client, threads,
                                 project_combobox, projects,
                                 selected_project_var, availableFields,
                                 field_vars>>
             [] call.callback = "projects_loaded" ->
                  /\ projects' = call.projects
                  /\ project_combobox' = "normal"
                  /\ selected_project_var' = projects_loaded(call.projects).name
                  /\ threads' = threads \o projects_loaded(call.projects).threads
                  /\ UNCHANGED <<clients, current_api_client, test_button,
                                 availableFields, field_vars>>
             [] call.callback = "projects_load_failed" ->
                  /\ project_combobox' = "readonly"
                  /\ UNCHANGED <<clients, current_api_client, threads,
                                 test_button, projects, selected_project_var,
                                 availableFields, field_vars>>
             [] call.callback = "fields_loaded" ->
                  /\ availableFields' = call.fields
                  /\ field_vars' = fields_loaded(call.fields)
                  /\ UNCHANGED <<clients, current_api_client, threads,
                                 test_button, project_combobox, projects,
                                 selected_project_var>>
    /\ UNCHANGED <<notSettings, toplevel, current_config, api_token_var, saved>>

\* save_settings with a save_config that returns: the configuration is
\* persisted and on_close runs
SaveSettings ==
    /\ toplevel = "open"
    /\ \E answer \in BOOLEAN :
          LET v == validate_settings(api_token_var, selected_project_var,
                                     field_vars, availableFields, answer)
              updated_config ==
                  [current_config EXCEPT
                      !.asana.access_token = strip(api_token_var),
                      !.asana.selected_project_id =
                          project_id_of(selected_project_var, projects),
                      !.asana.selected_project_name = selected_project_var,
                      !.export.selected_fields = checked_fields(v.field_vars)]
          IN  /\ field_vars' = v.field_vars
              /\ IF ~v.ok
                 THEN UNCHANGED <<current_config, saved, clients, toplevel>>
                 ELSE /\ current_config' = updated_config
                      /\ saved' = Append(saved, updated_config)
                      /\ clients' = on_close(clients, current_api_client)
                      /\ toplevel' = "destroyed"
    /\ UNCHANGED <<notSettings, api_token_var, selected_project_var, projects,
                   availableFields, current_api_client, test_button,
                   project_combobox, threads, settingsQueue>>

\* the cancel button and the close box: on_close
CloseSettings ==
    /\ toplevel = "open"
    /\ clients' = on_close(clients, current_api_client)
    /\ toplevel' = "destroyed"
    /\ UNCHANGED <<notSettings, current_config, api_token_var,
                   selected_project_var, projects, availableFields, field_vars,
                   current_api_client, test_button, project_combobox, threads,
                   settingsQueue, saved>>

InitSettings ==
    /\ toplevel = "none"
    /\ current_config = get_default_config
    /\ api_token_var = ""
    /\ selected_project_var = ""
    /\ projects = <<>>
    /\ availableFields = <<>>
    /\ field_vars = <<>>
    /\ current_api_client = 0
    /\ clients = <<>>
    /\ test_button = "normal"
    /\ project_combobox = "normal"
    /\ threads = <<>>
    /\ settingsQueue = <<>>
    /\ saved = <<>>

(***************************************************************************)
(* data/asana_client.py: _make_request, _handle_rate_limit and             *)
(* _handle_error_response                                                  *)
(***************************************************************************)
MAX_RETRIES == 3
RETRY_DELAY == 1
MaxCalls == 2

RECURSIVE Pow(_, _)
Pow(b, k) == IF k = 0 THEN 1 ELSE b * Pow(b, k - 1)

\* what session.request does in one attempt: it returns a response, with its
\* status code, its Retry-After header ("" when absent) and whether its body
\* is JSON, or it raises
Response(status_code, retry_after, json) ==
    [kind |-> "response", status_code |-> status_code,
     retry_after |-> retry_after, json |-> json]
Failure(cls) ==
    [kind |-> cls, status_code |-> 0, retry_after |-> "", json |-> FALSE]

HttpDate == "Wed, 21 Oct 2026 07:28:00 GMT"
OkStatuses == {200, 301}
ErrorStatuses == {401, 403, 404, 422, 500}
RetryAfterHeaders == {"", "5", "-1", HttpDate}
TransportFailures == {"Timeout", "ConnectionError"}

Events ==
    {Response(c, "", j) : c \in OkStatuses, j \in BOOLEAN}
    \cup {Response(c, "", TRUE) : c \in ErrorStatuses}
    \cup {Response(429, h, TRUE) : h \in RetryAfterHeaders}
    \cup {Failure(c) : c \in TransportFailures \cup {"RequestException", "Exception"}}

\* float(retry_after) on the headers used here
IsFloat(text) == text \in {"5", "-1"}
float(text) == IF text = "5" THEN 5 ELSE 0 - 1

\* response.ok
ok(response) == response.status_code < 400

\* _handle_rate_limit: the exception it raises ("none": it slept wait_time and
\* returned); time.sleep raises ValueError for a negative wait_time
handle_rate_limit(response, loop_index) ==
    IF loop_index >= MAX_RETRIES - 1
    THEN [raised |-> "AsanaRateLimitError", wait_time |-> 0]
    ELSE LET wait_time ==
                 IF response.retry_after # "" /\ IsFloat(response.retry_after)
                 THEN float(response.retry_after)
                 ELSE Pow(2, loop_index) * RETRY_DELAY
         IN  IF wait_time < 0
             THEN [raised |-> "ValueError", wait_time |-> wait_time]
             ELSE [raised |-> "none", wait_time |-> wait_time]

\* _handle_error_response with 403 among the statuses of the last branch
handle_error_response_forbidden_api(response) ==
    IF response.status_code = 401 THEN Err("AuthenticationError", "none", 0)
    ELSE Err("APIError", "none", response.status_code)

\* _handle_error_response: the exception it raises
handle_error_response(response) ==
    IF response.status_code = 401 THEN Err("AuthenticationError", "none", 0)
    ELSE IF response.status_code = 403 THEN Err("AuthenticationError", "none", 0)
    ELSE Err("APIError", "none", response.status_code)

\* the result of one loop iteration: the status codes logged with
\* log_api_metrics, the increment of retry_count, and then either the next
\* iteration after a sleep, the return of the JSON body, or an exception
Continue(logged, retries, wait_time) ==
    [next |-> "continue", logged |-> logged, retries |-> retries,
     wait_time |-> wait_time, err |-> NoError]
ReturnJson(logged) ==
    [next |-> "returned", logged |-> logged, retries |-> 0, wait_time |-> 0,
     err |-> NoError]
Raise(logged, retries, err) ==
    [next |-> "raised", logged |-> logged, retries |-> retries, wait_time |-> 0,
     err |-> err]

\* lines 151-189: a response was received
on_response(response, loop_index) ==
    IF response.status_code = 429
    THEN LET h == handle_rate_limit(response, loop_index)
         IN  CASE h.raised = "none" -> Continue(<<429>>, 1, h.wait_time)
               [] h.raised = "AsanaRateLimitError" ->
                      Raise(<<429>>, 1, Err("AsanaRateLimitError", "none", 0))
               [] OTHER ->
                      \* except Exception: metrics with status 0
                      Raise(<<429, 0>>, 1, Err("AsanaAPIError", "none", 0))
    ELSE IF ~ok(response)
    THEN Raise(<<response.status_code>>, 0, handle_error_response(response))
    ELSE IF response.json
    THEN ReturnJson(<<response.status_code>>)
    ELSE Raise(<<response.status_code>>, 0, Err("AsanaAPIError", "none", 0))

\* lines 191-209, except Timeout and except ConnectionError, without the
\* sleep: the next request follows at once
on_transport_failure_unslept(loop_index) ==
    IF loop_index = MAX_RETRIES - 1
    THEN Raise(<<0>>, 1, Err("NetworkError", "none", 0))
    ELSE Continue(<<>>, 1, 0)

\* lines 191-209: except Timeout and except ConnectionError
on_transport_failure(loop_index) ==
    IF loop_index = MAX_RETRIES - 1
    THEN Raise(<<0>>, 1, Err("NetworkError", "none", 0))
    ELSE Continue(<<>>, 1, RETRY_DELAY)

\* utils/debug_info.log_api_metrics, called once for each status code of
\* status_codes: it appends a line to the metrics log and returns
log_api_metrics(log, status_codes) == log \o status_codes

\* the body of the for loop for what session.request did
one_attempt(event, loop_index) ==
    CASE event.kind = "response" -> on_response(event, loop_index)
      [] event.kind \in TransportFailures -> on_transport_failure(loop_index)
      [] event.kind = "RequestException" ->
             Raise(<<0>>, 0, Err("NetworkError", "none", 0))
      [] OTHER -> Raise(<<0>>, 0, Err("AsanaAPIError", "none", 0))

\* a loop in which the continue after a 429 repeats the iteration
next_index_repeating(event, loop_index) ==
    IF event.status_code = 429 THEN loop_index ELSE loop_index + 1

\* for attempt in range(MAX_RETRIES): the index after a continue or a sleep
next_index(event, loop_index) == loop_index + 1

\* _make_request is called
MakeRequest ==
    /\ qPc \in {"idle", "returned", "raised"}
    /\ calls < MaxCalls
    /\ qPc' = "send"
    /\ qAttempt' = 0
    /\ retry_count' = 0
    /\ received' = <<>>
    /\ waits' = <<>>
    /\ metrics' = <<>>
    /\ qOut' = Pending
    /\ calls' = calls + 1
    /\ UNCHANGED <<notRequest, error_stats>>

\* one iteration of the for loop: the request is sent, its response or
\* exception handled, with the sleep before the next iteration; an exception
\* leaves through ErrorContext.__exit__, which records it; line 233 follows
\* the loop
RequestAttempt ==
    /\ qPc = "send"
    /\ \E event \in Events :
          LET r == one_attempt(event, qAttempt)
              after == next_index(event, qAttempt)
              exhausted == r.next = "continue" /\ after >= MAX_RETRIES
          IN  /\ received' = Append(received, event)
              /\ metrics' = log_api_metrics(metrics, r.logged)
              /\ retry_count' = retry_count + r.retries
              /\ waits' = IF r.next = "continue"
                          THEN Append(waits, r.wait_time) ELSE waits
              /\ qAttempt' = IF r.next = "continue" THEN after ELSE qAttempt
              /\ qPc' = IF exhausted THEN "raised"
                        ELSE IF r.next = "continue" THEN "send" ELSE r.next
              /\ qOut' = CASE exhausted -> Raises(Err("AsanaAPIError", "none", 0))
                           [] r.next = "continue" /\ ~exhausted -> qOut
                           [] r.next = "returned" -> Returns(<<"json">>)
                           [] OTHER -> Raises(r.err)
              /\ error_stats' = IF exhausted \/ r.next = "raised"
                                THEN record_error_stats(error_stats)
                                ELSE error_stats
    /\ UNCHANGED <<notRequest, calls>>

(***************************************************************************)
(* data/asana_client.py: get_project_tasks and _parse_task_data;           *)
(* data/models.py: Task                                                    *)
(***************************************************************************)
MaxRecords == 2

\* the timestamp texts of the API, by day of January 2024
StampDays == {3, 5, 8}
stamp(day) == "2024-01-0" \o ToString(day) \o "T09:30:00.000Z"
NotAStamp == "yesterday"

\* datetime.fromisoformat(text.replace('Z', '+00:00')); a datetime is its
\* day.  None has no replace (AttributeError), a text that is no ISO
\* timestamp gives ValueError
fromisoformat(text) ==
    IF text = PyNone THEN [status |-> "AttributeError", value |-> 0]
    ELSE IF \E d \in StampDays : stamp(d) = text
    THEN [status |-> "ok", value |-> CHOOSE d \in StampDays : stamp(d) = text]
    ELSE [status |-> "ValueError", value |-> 0]

\* Task.validate on the values _parse_task_data passes; id and name are
\* strings or None here
validate(id, name, created_at, modified_at) ==
    IF id = "" \/ id = PyNone THEN "ValueError"
    ELSE IF name = "" \/ name = PyNone THEN "ValueError"
    ELSE IF ~isdigit(id) THEN "ValueError"
    ELSE IF created_at > modified_at THEN "ValueError"
    ELSE "ok"

NoTask == [id |-> "", name |-> "", created_at |-> 0, modified_at |-> 0]
Parsed(status, task) == [status |-> status, task |-> task]

\* _parse_task_data: the Task, or the class of the exception
parse_task_data(task_data) ==
    IF "created_at" \notin DOMAIN task_data THEN Parsed("KeyError", NoTask)
    ELSE LET created_at == fromisoformat(task_data.created_at)
         IN
    IF created_at.status # "ok" THEN Parsed(created_at.status, NoTask)
    ELSE IF "modified_at" \notin DOMAIN task_data THEN Parsed("KeyError", NoTask)
    ELSE LET modified_at == fromisoformat(task_data.modified_at)
         IN
    IF modified_at.status # "ok" THEN Parsed(modified_at.status, NoTask)
    ELSE IF "gid" \notin DOMAIN task_data THEN Parsed("KeyError", NoTask)
    ELSE IF "name" \notin DOMAIN task_data THEN Parsed("KeyError", NoTask)
    ELSE IF validate(task_data.gid, task_data.name, created_at.value,
                     modified_at.value) # "ok"
    THEN Parsed("ValueError", NoTask)
    ELSE Parsed("ok", [id |-> task_data.gid, name |-> task_data.name,
                       created_at |-> created_at.value,
                       modified_at |-> modified_at.value])

\* Task.is_in_date_range
is_in_date_range(task, start_date, end_date) ==
    start_date <= task.created_at /\ task.created_at <= end_date

\* the for loop of get_project_tasks over response['data']: KeyError and
\* ValueError skip the record, any other exception leaves the loop
RECURSIVE parse_all(_, _, _)
parse_all(records, start_date, end_date) ==
    IF records = <<>> THEN Returns(<<>>)
    ELSE LET p == parse_task_data(Head(records))
             rest == parse_all(Tail(records), start_date, end_date)
         IN  IF p.status \in {"KeyError", "ValueError"} THEN rest
             ELSE IF p.status # "ok" THEN Raises(Err(p.status, "none", 0))
             ELSE IF rest.status = "raised" THEN rest
             ELSE IF is_in_date_range(p.task, start_date, end_date)
             THEN Returns(<<p.task>> \o rest.value)
             ELSE rest

\* get_project_tasks; response is what _make_request did
get_project_tasks(project_id, start_date, end_date, response) ==
    IF project_id = "" THEN Raises(Err("ValueError", "none", 0))
    ELSE IF start_date > end_date THEN Raises(Err("ValueError", "none", 0))
    ELSE IF response.status = "raised" THEN response
    ELSE parse_all(response.value, start_date, end_date)

\* the records of a response: well-formed ones and ones with one defect
Record(gid, name, created_at, modified_at) ==
    [gid |-> gid, name |-> name, created_at |-> created_at,
     modified_at |-> modified_at]
Drop(record, key) == [k \in DOMAIN record \ {key} |-> record[k]]

GoodRecords ==
    {Record("123", "Plan", stamp(3), stamp(5)),
     Record("7", "Ship", stamp(8), stamp(8))}
BadRecords ==
    {Drop(Record("7", "Ship", stamp(5), stamp(8)), k) :
        k \in {"gid", "name", "created_at", "modified_at"}}
    \cup {Record("7", "Ship", PyNone, stamp(8)),
          Record("7", "Ship", stamp(5), PyNone),
          Record("7", "Ship", NotAStamp, stamp(8)),
          Record("7", "", stamp(5), stamp(8)),
          Record("12a", "Ship", stamp(5), stamp(8)),
          Record("7", "Ship", stamp(8), stamp(5))}

RangeDays == {2, 6, 9}

\* api_client.get_project_tasks is called
GetProjectTasks ==
    /\ gOut.status = "pending"
    /\ \E project_id \in {"1201", ""},
          response \in {Returns(gData), Raises(Err("NetworkError", "none", 0))} :
          LET r == get_project_tasks(project_id, gStart, gEnd, response)
          IN  gOut' = [status |-> r.status, value |-> r.value, err |-> r.err,
                       project_id |-> project_id, response |-> response.status]
    /\ UNCHANGED <<notListing, gData, gStart, gEnd>>

InitRequest ==
    /\ qPc = "idle"
    /\ qAttempt = 0
    /\ retry_count = 0
    /\ received = <<>>
    /\ waits = <<>>
    /\ metrics = <<>>
    /\ qOut = Pending
    /\ calls = 0

InitListing ==
    /\ gData = <<>>
    /\ gStart = 0
    /\ gEnd = 0
    /\ gOut = Pending

InitApp ==
    /\ InitRetry /\ InitSheet /\ InitWindow /\ InitSettings
    /\ InitRequest /\ InitListing

(***************************************************************************)
(* Specifications                                                          *)
(***************************************************************************)
InitStore ==
    /\ dir = [p \in Paths |-> 0]
    /\ data = [n \in Inodes |-> <<>>]
    /\ keyFile = 0
    /\ nextKey = 1
    /\ pc = [i \in Instances |-> "none"]
    /\ encKey = [i \in Instances |-> 0]
    /\ arg = [i \in Instances |-> NoValue]
    /\ fd = [i \in Instances |-> 0]
    /\ caller = [i \in Instances |-> "none"]
    /\ preCall = [i \in Instances |-> NoSnapshot]
    /\ result = NoResult
    /\ diskFaults = TRUE

InitFields ==
    /\ vIn = <<>>
    /\ vOut = Pending
    /\ fTasks = <<>>
    /\ fSelected = <<>>
    /\ fAvail = NoLiveCatalog
    /\ fOut = Pending

InitDates ==
    /\ dStart = today
    /\ dEnd = today
    /\ dOut = "pending"

\* one store instance, with another program that may rewrite the file
Init == InitStore /\ InitFields /\ InitDates /\ InitApp

Next ==
    \/ Construct(1)
    \/ Dispose(1)
    \/ LoadConfig(1)
    \/ \E config \in SaveInputs : SaveConfig(1, config)
    \/ SaveOpen(1)
    \/ SaveWrite(1)
    \/ SaveReplace(1)
    \/ SaveExcept(1)
    \/ ResetConfig(1)
    \/ ResetUnlinkKey(1)
    \/ ResetNewKey(1)
    \/ InitializeDefaultConfig(1)
    \/ SetupApplication(1)
    \/ ForeignWrite

Spec == Init /\ [][Next]_vars

\* two store instances on the same directory
NextConc ==
    \/ \E i \in Instances : Construct(i)
    \/ \E i \in Instances, config \in ConcInputs : SaveConfig(i, config)
    \/ \E i \in Instances : SaveOpen(i)
    \/ \E i \in Instances : SaveWrite(i)
    \/ \E i \in Instances : SaveReplace(i)
    \/ \E i \in Instances : SaveExcept(i)

InitConc ==
    /\ dir = [p \in Paths |-> 0]
    /\ data = [n \in Inodes |-> <<>>]
    /\ keyFile = 0
    /\ nextKey = 1
    /\ pc = [i \in Instances |-> "none"]
    /\ encKey = [i \in Instances |-> 0]
    /\ arg = [i \in Instances |-> NoValue]
    /\ fd = [i \in Instances |-> 0]
    /\ caller = [i \in Instances |-> "none"]
    /\ preCall = [i \in Instances |-> NoSnapshot]
    /\ result = NoResult
    /\ diskFaults = FALSE
    /\ InitFields /\ InitDates /\ InitApp

SpecConc == InitConc /\ [][NextConc]_vars

\* two store instances on the same directory that are constructed, save and
\* reset
NextKeys ==
    \/ \E i \in Instances : Construct(i)
    \/ \E i \in Instances, config \in ConcInputs : SaveConfig(i, config)
    \/ \E i \in Instances : SaveOpen(i)
    \/ \E i \in Instances : SaveWrite(i)
    \/ \E i \in Instances : SaveReplace(i)
    \/ \E i \in Instances : SaveExcept(i)
    \/ \E i \in Instances : ResetConfig(i)
    \/ \E i \in Instances : ResetUnlinkKey(i)
    \/ \E i \in Instances : ResetNewKey(i)

SpecKeys == InitConc /\ [][NextKeys]_vars

\* validate_selected_fields on every list of at most MaxSel keys
InitValidate ==
    /\ InitStore /\ InitDates /\ InitApp
    /\ vIn \in SeqsUpTo(SchemaKeys, MaxSel)
    /\ vOut = Pending
    /\ fTasks = <<>> /\ fSelected = <<>> /\ fAvail = NoLiveCatalog /\ fOut = Pending

SpecValidate == InitValidate /\ [][ValidateSelectedFields]_vars

\* filter_tasks_by_fields on every task list, selection and catalog
InitFilter ==
    /\ InitStore /\ InitDates /\ InitApp
    /\ vIn = <<>> /\ vOut = Pending
    /\ fTasks \in SeqsUpTo(TaskPool, MaxTasks)
    /\ fSelected \in SeqsUpTo(FilterKeys, MaxSel)
    /\ fAvail \in LiveCatalogs
    /\ fOut = Pending

SpecFilter == InitFilter /\ [][FilterTasksByFields]_vars

\* validate_date_range on every pair of dates around today
InitDateRange ==
    /\ InitStore /\ InitFields /\ InitApp
    /\ dStart \in Dates
    /\ dEnd \in Dates
    /\ dOut = "pending"

SpecDates == InitDateRange /\ [][ValidateDateRange]_vars

\* calls of functions decorated with retry_on_error, get_tasks among them
NextRetry ==
    \/ RetryCall
    \/ RetryAttempt
    \/ RetrySleep

SpecRetry == Init /\ [][NextRetry]_vars

\* calls of _make_request
NextRequest ==
    \/ MakeRequest
    \/ RequestAttempt

SpecRequest == Init /\ [][NextRequest]_vars

\* a call that has begun an iteration of its loop finishes it: the thread
\* that runs _make_request is scheduled
RequestStep == qPc = "send" /\ received' # received
SpecRequestFair ==
    /\ SpecRequest
    /\ ([]<>(qPc # "send") \/ []<><<RequestStep>>_vars)

\* get_project_tasks on every response of up to MaxRecords records
InitGetProjectTasks ==
    /\ InitStore /\ InitFields /\ InitDates /\ InitRetry /\ InitSheet
    /\ InitWindow /\ InitSettings /\ InitRequest
    /\ gData \in SeqsUpTo(GoodRecords \cup BadRecords, MaxRecords)
    /\ gStart \in RangeDays
    /\ gEnd \in RangeDays
    /\ gOut = Pending

SpecGetProjectTasks == InitGetProjectTasks /\ [][GetProjectTasks]_vars

\* exports of up to MaxRows tasks, through the field filter and directly
InitExport ==
    /\ InitStore /\ InitFields /\ InitDates /\ InitRetry /\ InitWindow
    /\ InitSettings /\ InitRequest /\ InitListing
    /\ xTasks \in {t \in SeqsUpTo(SheetTasks, MaxRows) :
                      \A a, b \in DOMAIN t : a # b => t[a].id # t[b].id}
    /\ xSelected \in SheetSelections
    /\ xFields \in SheetCatalogs
    /\ xFilename \in Filenames
    /\ xDisk \in Disks
    /\ xOut = Pending

NextExport ==
    \/ ExportFiltered
    \/ ExportTasks

SpecSheet == InitExport /\ [][NextExport]_vars

\* the main window: construction, user input and export runs
NextWindow ==
    \/ ConstructMainWindow
    \/ EditDates
    \/ SetCompletionFilter
    \/ OnExportClick
    \/ WorkerPrepare
    \/ WorkerFetch
    \/ WorkerFields
    \/ WorkerFilter
    \/ WorkerWrite
    \/ Dispatch

SpecWindow == Init /\ [][NextWindow]_vars

\* a step of the worker thread: only the worker moves its own position, and
\* at every position its step is enabled, as each call returns or raises
WorkerStep == wPc # "none" /\ wPc' # wPc

\* the worker thread is scheduled (weak fairness of its step, with the
\* enabling condition written out); the Tk main loop runs the callbacks
\* that were posted
SpecWindowFair ==
    /\ SpecWindow
    /\ ([]<>(wPc = "none") \/ []<><<WorkerStep>>_vars)
    /\ WF_vars(Dispatch)

\* the settings window: one session, from construction to on_close
NextSettings ==
    \/ OpenSettings
    \/ EditToken
    \/ TypeProject
    \/ SelectProject
    \/ ToggleField
    \/ TestConnection
    \/ RefreshProjects
    \/ TestConnectionWorker
    \/ RefreshProjectsWorker
    \/ UpdateFieldsWorker
    \/ SettingsDispatch
    \/ SaveSettings
    \/ CloseSettings

SpecSettings == Init /\ [][NextSettings]_vars

(***************************************************************************)
(* Properties of the configuration store                                   *)
(***************************************************************************)
SaveCompleted == result.op = "save" /\ result.status = "ok"

FileToken == TokenOf(json_load(ConfigText))

\* C1 (at rest): after a successful save_config of a configuration with a
\* token, the config file holds a document whose token is not the plaintext
C1_TokenEncryptedAtRest ==
    (SaveCompleted /\ AllIdle /\ TokenOf(result.value) # "")
        => /\ config_exists
           /\ IsJson(ConfigText)
           /\ FileToken # ""
           /\ FileToken # TokenOf(result.value)

\* C1 (round trip): a load_config that follows a successful save_config
\* returns the mapping that was saved, token in plaintext
C1_LoadReturnsSaved ==
    (SaveCompleted /\ result'.op = "load")
        => /\ result'.status = "ok"
           /\ result'.value = result.value

\* C1: for every configuration that passes validate_config, save_config
\* followed by load_config on the same store returns a mapping equal to the
\* one saved, with the plaintext token, while the token in the config file
\* is not the plaintext
C1_SaveLoadRoundTrip == [](C1_TokenEncryptedAtRest) /\ [][C1_LoadReturnsSaved]_vars

C1_Witness ==
    /\ result.op = "load"
    /\ result.after = "save:ok"
    /\ result.status = "ok"
    /\ TokenOf(result.value) = "tokB"
    /\ FileToken = Fernet(encKey[1], "tokB")

Undecryptable(key, doc) ==
    TokenOf(doc) # "" /\ \A pt \in Plaintexts : TokenOf(doc) # Fernet(key, pt)

LoadStep == result'.op = "load" /\ result' # result

\* C2 as a step: what a load_config step returns and what it leaves alone
C2_LoadStep ==
    LoadStep =>
        /\ result'.status = "raise" => (config_exists /\ ~IsJson(ConfigText))
        /\ ~config_exists =>
              (result'.status = "ok" /\ result'.value = get_default_config)
        /\ (config_exists /\ IsJson(ConfigText)
              /\ Undecryptable(encKey[result'.by], json_load(ConfigText))) =>
              (result'.status = "ok" /\ result'.value = get_default_config)
        /\ (config_exists /\ IsJson(ConfigText)
              /\ TokenOf(json_load(ConfigText)) = ""
              /\ json_load(ConfigText).export.default_date_range <= 0) =>
              (result'.status = "ok" /\ result'.value = get_default_config)
        /\ UNCHANGED <<dir, data, keyFile>>

\* C2: load_config raises only when the config file is not parseable JSON;
\* it returns the default configuration when the file is absent, when the
\* stored token cannot be decrypted and when the mapping fails validation;
\* it never modifies the config file or the key file
C2_LoadFallsBackToDefault == [][C2_LoadStep]_vars

C2_Witness ==
    /\ result.op = "load"
    /\ result.after = "foreign:ok"
    /\ result.status = "ok"
    /\ result.value = get_default_config
    /\ config_exists
    /\ IsJson(ConfigText)
    /\ Undecryptable(encKey[1], json_load(ConfigText))

\* C3 as a step: the step in which a save_config call raises
C3_FailedSaveStep ==
    /\ (pc[1] = "save_except" /\ caller[1] = "direct" /\ pc'[1] = Idle) =>
          /\ result'.op = "save"
          /\ result'.status = "raise"
          /\ ConfigSnapshot' = preCall[1]
          /\ dir'[TEMP] = 0
    /\ (pc[1] = Idle /\ result'.op = "save" /\ result'.err = "ValueError"
          /\ result' # result) =>
          /\ result'.status = "raise"
          /\ ConfigSnapshot' = ConfigSnapshot
          /\ dir'[TEMP] = 0

C4_ConfigFileAlwaysComplete ==
    config_exists =>
        /\ IsJson(ConfigText)
        /\ \E config \in ConcInputs, i \in Instances :
              json_load(ConfigText) = ConfigToSave(encKey[i], config)

InitializeCompleted == result.op = "init_default" /\ result.status = "ok"

\* C5 as a step: the config file disappears only in reset_config, and a
\* load_config that follows initialize_default_config returns what it returned
C5_FirstRunStep ==
    /\ (~is_first_run /\ is_first_run') => (pc[1] = Idle /\ pc'[1] = "reset_key")
    /\ (InitializeCompleted /\ result'.op = "load") =>
          /\ result'.status = "ok"
          /\ result'.value = result.value

\* C5: without a config file is_first_run() is true; after a successful
\* initialize_default_config() it is false and stays false until reset_config
\* runs, and load_config returns the configuration that was initialized
C5_FirstRunDetection ==
    /\ is_first_run
    /\ []((InitializeCompleted /\ AllIdle) => ~is_first_run)
    /\ [][C5_FirstRunStep]_vars

C5_Witness ==
    /\ result.op = "load"
    /\ result.after = "init_default:ok"
    /\ result.status = "ok"
    /\ result.value = DefaultConfigFor(FALSE)
    /\ ~is_first_run

\* C6: setup_application never propagates an exception to its caller
C6_SetupNeverRaises == result.op = "setup" => result.status = "ok"

ResetCompleted == result.op = "reset" /\ result.status = "ok"

\* C7 (state): what holds when reset_config has returned
C7_AfterReset ==
    (ResetCompleted /\ pc[result.by] = Idle) =>
        /\ ~config_exists
        /\ load_config(encKey[result.by]) = Returned(get_default_config)
        /\ keyFile # 0
        /\ keyFile # result.info
        /\ keyFile = nextKey - 1
        /\ encKey[result.by] = keyFile

\* C7 as a step: save_config after reset_config, then load_config
C7_UsableStep ==
    /\ (ResetCompleted /\ result'.op = "load") =>
          (result'.status = "ok" /\ result'.value = get_default_config)
    /\ (SaveCompleted /\ result.after = "reset:ok" /\ result'.op = "load") =>
          /\ result'.status = "ok"
          /\ TokenOf(result'.value) = TokenOf(result.value)

\* C7: after a successful reset_config the config file does not exist,
\* load_config returns the default configuration, the key file holds a newly
\* generated key, and save_config then load_config on the same instance
\* returns the saved token
C7_ResetKeepsInstanceUsable == [](C7_AfterReset) /\ [][C7_UsableStep]_vars

C7_Witness ==
    /\ SaveCompleted
    /\ result.after = "reset:ok"
    /\ pc[1] = Idle
    /\ TokenOf(result.value) = "tokA"
    /\ keyFile = 2
    /\ FileToken = Fernet(2, "tokA")
    /\ load_config(encKey[1]) = Returned(result.value)

(***************************************************************************)
(* Properties of the field catalog and of the task manager                 *)
(***************************************************************************)
\* C8: validate_selected_fields returns a list that contains name and
\* created_at and no key outside AVAILABLE_TASK_FIELDS; for an empty input
\* it returns [name, created_at, assignee, completed, due_date]
C8_ValidatedFields ==
    vOut.status = "ok" =>
        /\ Contains(vOut.list, "name")
        /\ Contains(vOut.list, "created_at")
        /\ \A n \in DOMAIN vOut.list : vOut.list[n] \in AVAILABLE_TASK_FIELDS
        /\ vIn = <<>> =>
              vOut.list = <<"name", "created_at", "assignee", "completed", "due_date">>

C8_Witness ==
    /\ vOut.status = "ok"
    /\ vIn = <<"bogus", "id", "assignee">>
    /\ vOut.list = <<"created_at", "name", "assignee">>

\* C9: validate_date_range(start, end) returns True exactly when
\* start <= end, end <= today, end - start <= 365 and start >= today - 365,
\* and raises DateValidationError otherwise
C9_DateRangeAccepted ==
    dOut # "pending" =>
        /\ dOut \in {"True", "DateValidationError"}
        /\ dOut = "True" <=> /\ dStart <= dEnd
                             /\ dEnd <= today
                             /\ dEnd - dStart <= 365
                             /\ dStart >= today - 365
        /\ (dStart = today - 365 /\ dEnd = today) => dOut = "True"
        /\ (dStart = today - 366 /\ dEnd = today) => dOut = "DateValidationError"
        /\ (dStart = today /\ dEnd = today + 1) => dOut = "DateValidationError"
        /\ (dStart = today - 400 /\ dEnd = today - 1) => dOut = "DateValidationError"

C9_Witness ==
    /\ dOut = "True"
    /\ dStart = today - 365
    /\ dEnd = today

CatalogOf(available_field_definitions) ==
    IF available_field_definitions # <<>>
    THEN {available_field_definitions[n].key : n \in DOMAIN available_field_definitions}
    ELSE {"id", "name", "created_at", "modified_at", "completed", "assignee",
          "due_date", "notes"}

OmitsName ==
    /\ fOut.status # "pending"
    /\ fTasks # <<>>
    /\ fOut.given # <<>>
    /\ ~Contains(fOut.given, "name")
    /\ \E n \in DOMAIN fOut.given : fOut.given[n] \in CatalogOf(fAvail)

\* C10: for a non-empty task list and a non-empty selection that omits name
\* but keeps a field of the available catalog, filter_tasks_by_fields returns
\* one row per task and every row has a name entry
C10_NameAlwaysExported ==
    OmitsName =>
        /\ fOut.status = "ok"
        /\ Len(fOut.rows) = Len(fTasks)
        /\ \A n \in DOMAIN fOut.rows :
              /\ "name" \in DOMAIN fOut.rows[n]
              /\ fOut.rows[n]["name"] = fTasks[n].name

C10_Witness ==
    /\ OmitsName
    /\ fAvail = <<[key |-> "custom_1"], [key |-> "assignee"]>>
    /\ fOut.given = <<"custom_1", "bogus">>
    /\ Len(fTasks) = MaxTasks
    /\ Len(fOut.rows) = MaxTasks

\* C11: in every row filter_tasks_by_fields returns, each key is a field the
\* caller selected or one of name and created_at, with or without a live
\* field catalog
C11_OnlyNameAndCreatedAtForced ==
    fOut.status = "ok" =>
        \A n \in DOMAIN fOut.rows :
            \A k \in DOMAIN fOut.rows[n] :
                Contains(fOut.given, k) \/ k \in {"name", "created_at"}

\* C12: when get_tasks fails with a TaskManagerError caused by an
\* AsanaAPIError of the task listing, the listing has been invoked 3 times
\* (2 retries), the first sleep was 1 s, and the cause is the listing's error
C12_GetTasksRetriesListing ==
    (/\ decorated.fn = "get_tasks"
     /\ rPc = "raised"
     /\ rOut.err.cls = "TaskManagerError"
     /\ IsSubclass(rOut.err.cause, "AsanaAPIError"))
    => /\ listed = 3
       /\ Len(slept) = 2
       /\ slept[1] = 1

\* C13: the percentages the worker posts within one export run are strictly
\* increasing, whatever the completion filter is
C13_ProgressStrictlyIncreasing ==
    \A i, j \in DOMAIN posted : i < j => posted[i] < posted[j]

\* an export run is in flight: its worker thread runs, or its completion or
\* failure callback is posted and has not run yet
InFlight ==
    \/ wPc # "none"
    \/ \E n \in DOMAIN afterQueue : afterQueue[n].kind \in {"completed", "failed"}

\* C14: the export control is disabled exactly while an export run is in
\* flight; every run ends with exactly one of the completion and failure
\* callbacks, after which the control is enabled again
C14_ExportControlReenabled ==
    /\ [](InFlight <=> export_btn = "disabled")
    /\ [](Len(outcome) <= 1)
    /\ [](outcome # <<>> => ~InFlight)
    /\ (InFlight ~> (~InFlight /\ export_btn = "normal" /\ Len(outcome) = 1))

C14_Witness ==
    /\ outcome = <<"failed">>
    /\ export_btn = "normal"
    /\ posted = <<10, 40, 50, 45>>

\* the loaded configuration names no project
NamesNoProject(loaded) ==
    /\ loaded.status = "returned"
    /\ Get(Get(loaded.value, "asana", <<>>), "selected_project_name", "") = ""
    /\ Get(Get(loaded.value, "asana", <<>>), "selected_project_id", "") = ""

\* C19: when the main window is constructed on a stored configuration that
\* names no project, it shows the placeholder as project name and the status
\* that asks for the settings; it shows the ready status only when a project
\* is configured
C19_InitialStatus ==
    [][(window = "none" /\ window' = "open") =>
          /\ NamesNoProject(stored') =>
                /\ project_var' = Placeholder
                /\ status_var' = StatusConfigure
          /\ status_var' = StatusReady => ~NamesNoProject(stored')]_vars

\* C20: the export of 3 tasks through filter_tasks_by_fields and
\* export_to_excel with selection [name, created_at, assignee] gives a sheet
\* of 4 rows whose first header is the display name of name and whose
\* assignee cell is the unassigned text for every task without assignee
C20_ThreeTaskSheet ==
    (/\ xOut.status = "ok"
     /\ xOut.filtered
     /\ Len(xTasks) = 3
     /\ xOut.given = <<"name", "created_at", "assignee">>)
    => /\ Len(xOut.sheet) = 4
       /\ xOut.sheet[1][1] = get_field_display_name("name")
       /\ \A n \in 1..3 :
             xTasks[n].assignee = PyNone =>
                \E c \in DOMAIN xOut.columns :
                    /\ xOut.columns[c] = "assignee"
                    /\ xOut.sheet[n + 1][c] = Unassigned

(***************************************************************************)
(* Properties of the settings window                                       *)
(***************************************************************************)
\* C15: at any time at most one worker thread of the settings window
\* (connection test, project refresh, field catalog refresh) is running
C15_OneNetworkOperation == Len(threads) <= 1

\* the Tk main loop runs _fields_loaded
FieldsRefresh ==
    /\ toplevel = "open"
    /\ settingsQueue # <<>>
    /\ Head(settingsQueue).callback = "fields_loaded"
    /\ settingsQueue' = Tail(settingsQueue)

IsChecked(fieldVarsDict, key) ==
    \E n \in DOMAIN fieldVarsDict :
        fieldVarsDict[n].key = key /\ fieldVarsDict[n].on

\* C16: a field that was checked before a field catalog refresh and is in
\* the refreshed catalog is checked after it, saved or not
C16_RefreshKeepsChoices ==
    [][FieldsRefresh =>
          \A n \in DOMAIN availableFields' :
              IsChecked(field_vars, availableFields'[n].key)
                  => IsChecked(field_vars', availableFields'[n].key)]_vars

\* C17: a persisted selected_project_id is not empty and is the id, in the
\* project list fetched last, of the project with the persisted name
C17_SavedProjectResolved ==
    \A n \in DOMAIN saved :
        /\ saved[n].asana.selected_project_id # ""
        /\ \E m \in DOMAIN projects :
              /\ projects[m].name = saved[n].asana.selected_project_name
              /\ projects[m].id = saved[n].asana.selected_project_id

\* C18: once the settings window is destroyed, every client that
\* _connection_test_success stored in current_api_client has been closed
C18_ClientsClosedOnClose ==
    toplevel = "destroyed" => \A c \in DOMAIN clients : clients[c].closed

(***************************************************************************)
(* Properties of the field filter as the export worker uses it             *)
(***************************************************************************)
\* C29: after filter_tasks_by_fields, successful or not, the list the caller
\* passed as selected_fields has the elements it had before, in that order
C29_CallerListUnchanged ==
    fOut.status # "pending" => fSelected = fOut.given

(* Properties of an export run that has no task to export *)
\* C30: when the fetched task list is empty, or the completion filter removes
\* every fetched task, no file is written at the chosen path and no completion
\* callback runs; the only outcome the run reports is the failed one, with the
\* failure status and the progress back at 0, and the run does report it
C30_EmptyExportFails ==
    /\ [](exported.emptied # "no" =>
            /\ exported.file = "none"
            /\ \A n \in DOMAIN afterQueue : afterQueue[n].kind # "completed"
            /\ \A n \in DOMAIN outcome : outcome[n] = "failed")
    /\ [][(exported'.emptied # "no" /\ outcome' # outcome) =>
             /\ outcome' = <<"failed">>
             /\ status_var' = "failed"
             /\ progress_var' = 0]_vars
    /\ (exported.emptied # "no" ~> (outcome = <<"failed">> /\ progress_var = 0))

C30_Witness ==
    /\ exported = [emptied |-> "filtered", file |-> "none"]
    /\ posted = <<10, 40, 50, 45, 70>>
    /\ outcome = <<"failed">>
    /\ progress_var = 0

(* Properties of the encryption key of two stores on one directory *)
\* C27: whenever no operation of either store is in progress, the key every
\* constructed store holds in memory is the content of the key file
C27_KeysAgreeWhenIdle ==
    AllIdle => \A i \in Instances : pc[i] = Idle => encKey[i] = keyFile

(* Properties of retry_on_error *)
NetworkFailure == Raises(Err("NetworkError", "none", 0))

\* C23: after a wrapped call whose first two attempts failed with a network
\* failure and whose third attempt succeeded, retry_attempts is 2 more and
\* successful_retries 1 more than before the call
C23_TwoRetryAttemptsCounted ==
    (/\ rPc = "returned"
     /\ Len(tried) = 3
     /\ tried[1] = NetworkFailure
     /\ tried[2] = NetworkFailure)
    => /\ error_stats.retry_attempts = stats_before.retry_attempts + 2
       /\ error_stats.successful_retries = stats_before.successful_retries + 1

\* the rule of the wrapper for an error of func: the allow-list retry_on when
\* it is given, ErrorHandler.should_retry otherwise
Retryable(policy, o) ==
    /\ o.status = "raised"
    /\ IF policy.retry_on # {}
       THEN \E t \in policy.retry_on : isinstance(o.err, t)
       ELSE should_retry(o.err)

\* C26: a call of a function wrapped with max_retries n, delay d and backoff b
\* invokes it at most n+1 times; once when its first error is not retryable;
\* when every attempt fails with a retryable error, n+1 times with the sleeps
\* d, d*b, ..., d*b^(n-1) between the attempts, none after the last, and the
\* error of the last attempt is raised
C26_RetryBudget ==
    /\ Len(tried) <= decorated.max_retries + 1
    /\ rPc \in {"returned", "raised"} =>
          /\ (tried[1].status = "raised" /\ ~Retryable(decorated, tried[1]))
                => Len(tried) = 1 /\ slept = <<>>
          /\ (\A k \in DOMAIN tried : Retryable(decorated, tried[k])) =>
                /\ Len(tried) = decorated.max_retries + 1
                /\ slept = [k \in 1..decorated.max_retries |->
                               decorated.delay * Pow(decorated.backoff, k - 1)]
                /\ rOut = Raises(tried[Len(tried)].err)

C26_Witness ==
    /\ rPc = "raised"
    /\ Len(tried) = 3
    /\ \A k \in DOMAIN tried : Retryable(decorated, tried[k])
    /\ tried[2] # tried[3]
    /\ slept = <<3, 9>>

(* Properties of _make_request *)
\* session.request answered every attempt of the call with a 429 that has no
\* Retry-After header
AlwaysRateLimited ==
    /\ received # <<>>
    /\ \A n \in DOMAIN received : received[n] = Response(429, "", TRUE)

\* C22: a call that raises AsanaRateLimitError after 429 responses without
\* Retry-After in every attempt has slept 1 s, 2 s and 4 s before
C22_RateLimitSleeps ==
    (qPc = "raised" /\ AlwaysRateLimited) =>
        /\ qOut.err.cls = "AsanaRateLimitError"
        /\ waits = <<1, 2, 4>>

\* every attempt of the call so far timed out or failed to connect
OnlyTransportFailures ==
    /\ received # <<>>
    /\ \A n \in DOMAIN received : received[n].kind \in TransportFailures

\* C24: when every attempt times out or fails to connect, the call sleeps 1 s
\* after each failed attempt but the last and logs no metrics before the
\* last; it ends after 3 requests and 2 sleeps with metrics of status 0
\* logged once, and raises NetworkError
C24_TransportFailuresExhaust ==
    OnlyTransportFailures =>
        /\ waits = [n \in 1..Len(waits) |-> 1]
        /\ qPc = "send" => Len(waits) = Len(received) /\ metrics = <<>>
        /\ qPc # "send" =>
              /\ Len(received) = 3
              /\ Len(waits) = 2
              /\ metrics = <<0>>
              /\ qOut = Raises(Err("NetworkError", "none", 0))

C24_Witness ==
    /\ qPc = "raised"
    /\ received = <<Failure("Timeout"), Failure("ConnectionError"),
                    Failure("Timeout")>>
    /\ waits = <<1, 1>>

\* a response whose status is neither 2xx nor 429
IsOtherStatus(event) ==
    /\ event.kind = "response"
    /\ event.status_code \notin 200..299
    /\ event.status_code # 429

\* C25: a response with a status other than 2xx and 429 is the last thing
\* the call receives: the call is over, no request follows it; after a 401
\* or 403 the call has raised AuthenticationError
C25_ErrorStatusNotRetried ==
    \A n \in DOMAIN received :
        IsOtherStatus(received[n]) =>
            /\ n = Len(received)
            /\ qPc \in {"returned", "raised"}
            /\ received[n].status_code \in {401, 403} =>
                  qOut = Raises(Err("AuthenticationError", "none", 0))

C25_Witness ==
    /\ qPc = "raised"
    /\ received = <<Response(429, "", TRUE), Response(403, "", TRUE)>>

\* C28: a call sends at most 3 requests whatever the responses and transport
\* failures are; each request it has sent, a 429 as well as a timeout, has
\* used one of its attempts; a call that is over has returned the JSON body or
\* raised; and every call comes to its end
C28_RequestTerminates ==
    /\ [](Len(received) <= 3)
    /\ [](qPc = "send" => qAttempt = Len(received))
    /\ [](qPc \in {"returned", "raised"} =>
             \/ qOut = Returns(<<"json">>)
             \/ qOut.status = "raised" /\ qOut.err # NoError)
    /\ (qPc = "send" ~> qPc \in {"returned", "raised"})

C28_Witness ==
    /\ qPc = "raised"
    /\ Len(received) = 3
    /\ received[1].status_code = 429
    /\ received[2].kind = "Timeout"
    /\ received[3].status_code = 429

(* Properties of get_project_tasks *)
\* a record with all its keys, parsable timestamps, a name, a numeric id and
\* created_at not after modified_at
WellFormed(record) == record \in GoodRecords

\* the creation day of a well-formed record
CreatedOn(record) == CHOOSE d \in StampDays : stamp(d) = record.created_at

\* the ids of the well-formed records of the response created within
\* [gStart, gEnd], in the order of the response
RECURSIVE ExpectedIds(_)
ExpectedIds(records) ==
    IF records = <<>> THEN <<>>
    ELSE IF /\ WellFormed(Head(records))
            /\ gStart <= CreatedOn(Head(records))
            /\ CreatedOn(Head(records)) <= gEnd
         THEN <<Head(records).gid>> \o ExpectedIds(Tail(records))
         ELSE ExpectedIds(Tail(records))

\* C21: with a project id, start_date <= end_date and a response of
\* _make_request, get_project_tasks returns, whatever malformed records the
\* response holds, and what it returns are the well-formed records created
\* within [start_date, end_date]
C21_MalformedRecordsSkipped ==
    (/\ gOut.status # "pending"
     /\ gOut.project_id # ""
     /\ gStart <= gEnd
     /\ gOut.response = "returned")
    => /\ gOut.status = "returned"
       /\ [n \in DOMAIN gOut.value |-> gOut.value[n].id] = ExpectedIds(gData)

====
